---- MODULE Spec2Model ----
(***************************************************************************)
(* A model of the job-vacancy ingestion pipeline of unjobzone-api: the     *)
(* upsert engine (etl/shared.js upsertJobVacancy, validateJobData), the    *)
(* run-status tracker (logETLStatus, getJobCount), the cleanup engine      *)
(* (cleanupExpiredAndDuplicateJobs), the connectors (etl-wfp.js,           *)
(* etl-inspira.js, etl-unfpa.js) and the orchestrator (app.js runEtl).     *)
(*                                                                         *)
(* Representation.  A string field that JavaScript finds falsy (undefined, *)
(* null, '') is the empty string "".  A nullable integer column is a       *)
(* tuple: <<>> is SQL NULL and <<n>> the value n.  A date is a record      *)
(* [kind, t]: kind "null" (no date), "date" (time t) or "invalid" (a Date  *)
(* that is NaN).  Time is the integer clock now.                           *)
(***************************************************************************)
EXTENDS Integers, Sequences, FiniteSets, TLC

\* ------------------------------------------------------------------ bounds

\* The clock runs from 0 to MaxTime.
MaxTime == 1
\* The SERIAL sequence of job_vacancies.id hands out 1..MaxId.
MaxId == 2
\* A source reports at most MaxPages pages.
MaxPages == 1
\* At most MaxFaults operations around the store fail in one behaviour: a
\* refused connection, a failed fetch, a raising item, a Redis error, a failing
\* statement of the clean-up. (A rejected INSERT changes no table and needs
\* no bound.)
MaxFaults == 1

\* ------------------------------------------------------------- data values

NULL == <<>>
NullDate == [kind |-> "null", t |-> 0]
InvalidDate == [kind |-> "invalid", t |-> 0]
DateAt(t) == [kind |-> "date", t |-> t]

\* Validation limit on job_title.
MaxTitleLength == 500
\* The length of a title: "LONG" stands for a title of 501 characters.
TitleLength(title) == IF title = "LONG" THEN MaxTitleLength + 1 ELSE 7

\* The default organization id of getOrganizationId.
DefaultOrgId == 128

VARIABLES
  job_vacancies,  \* the table job_vacancies: a set of rows
  nextId,         \* the next value of the id sequence of job_vacancies
  now,            \* the clock
  lastCall        \* the latest upsertJobVacancy call of the running caller: its
                  \* candidate (cand), its result (res), the rows that had the
                  \* candidate's key before it (before) and whether it repeats
                  \* the candidate of the call before it, which inserted (repeat)

VARIABLES
  etl_status,         \* the table etl_status: the sequence of its rows
  status_rejected,    \* the status rows whose INSERT the table rejected
  status_constrained, \* whether etl_status carries the constraint valid_counts
  cacheKeys,          \* whether Redis holds keys matching 'jobs:*'
  etl,                \* runEtl: its position (pc), the index of the current
                      \* entry of etlJobs (idx) and etlResults
  conn,               \* the locals of the connector that is running
  invoked,            \* the connectors runEtl has called, in order
  merged,             \* the successful merges of the cycle: connector and key
  cleaned,            \* the keys of the rows the cycle's cleanups deleted
  fetchFailures,      \* the connectors one of whose page fetches failed
  faults,             \* the number of environment failures so far
  cli                 \* the latest run of the clean-up script: its arguments
                      \* (args), the table before it (before), its time (t),
                      \* the query made to fail (failAt) and what
                      \* cleanupExpiredAndDuplicateJobs did (result)

VARIABLES
  org                 \* the latest getOrganizationId call of a connector: its
                      \* argument (dept), the condition of the storage
                      \* (storage), whether it raised (threw), the id it
                      \* returned (id) and whether the connector has yet to
                      \* use it (pending)

VARIABLES
  runs                \* the runEtl calls of the triggers: for each trigger
                      \* the position of its call (pc), the entry of etlJobs
                      \* it is at (idx) and the latest merge of its connector
                      \* (last)

VARIABLES
  api                 \* the safeApiCall in progress: its position (pc), its
                      \* retries argument, the loop variable attempt, the
                      \* outcome of each fetch so far (outcomes), the seconds
                      \* waited after each failure (waits), the state of the
                      \* timeout timer (timer) and what the call returned
                      \* (result) or whether it raised (threw)

VARIABLES
  unesco              \* runEtl at the entry UNESCO of etlJobs: its position
                      \* (pc), the listings the connector has yet to process
                      \* (left), the connector's counters and whether it threw

VARIABLES
  mig                 \* the migration: whether job_vacancies carries the
                      \* constraint unique_job_vacancy, and for each run of
                      \* migrateToPrevantDuplicates the table before and after
                      \* it, the query made to fail and what it returned

VARIABLES
  paging              \* where a connector stands in its paging loop while its
                      \* source is down: in the loop, or in the catch block
                      \* after a fetch that failed

VARIABLES
  cleanupRun          \* a live run of cleanupExpiredAndDuplicateJobs statement
                      \* by statement: its position (pc), the table when it
                      \* began (before), its stats, and the time of its
                      \* counting queries (counted)

VARIABLES
  wrapper             \* one call of executeETLWithTransaction: its position
                      \* (pc), its arguments, its client, its flag
                      \* `transaction', the transaction on the server (txn),
                      \* what became of the ETL function's writes, the error
                      \* caught, and what the call returned or threw

VARIABLES
  limiter             \* the middleware rateLimiter(windowMs, max) returned:
                      \* its arguments, its Map `requests' from IP to the
                      \* times it holds, the times of the requests it passed
                      \* to next() per IP, and its answer to the last request

\* ---------------------------------------------------------- validateJobData

\* JavaScript's !v for a string field.
Falsy(v) == v = ""

validateJobData(job, requiredFields) ==
  LET errors ==
        {<<"Missing required field", f>> : f \in {g \in requiredFields : Falsy(job[g])}}
        \cup (IF Falsy(job.job_id) THEN {<<"Invalid job_id", "job_id">>} ELSE {})
        \cup (IF job.end_date.kind = "invalid"
              THEN {<<"Invalid end_date format", "end_date">>} ELSE {})
        \cup (IF ~Falsy(job.job_title) /\ TitleLength(job.job_title) > MaxTitleLength
              THEN {<<"Job title exceeds maximum length", "job_title">>} ELSE {})
  IN [isValid |-> errors = {}, errors |-> errors]

\* ---------------------------------------------------------- upsertJobVacancy

\* The fields upsertJobVacancy requires of a candidate.
requiredFields == {"job_id", "job_title", "data_source"}

\* v || d
OrDefault(v, d) == IF Falsy(v) THEN d ELSE v

\* The row the INSERT proposes: the parameter list $1..$22 of the query.
ProposedRow(jobData, id, t) ==
  [id |-> id,
   job_id |-> jobData.job_id,
   data_source |-> jobData.data_source,
   organization_id |-> jobData.organization_id,
   job_title |-> jobData.job_title,
   duty_station |-> OrDefault(jobData.duty_station, ""),
   language |-> OrDefault(jobData.language, "EN"),
   end_date |-> jobData.end_date,
   created |-> t]

\* ON CONFLICT on the title instead of the job id.
Conflicts_OnTitle(r, p) ==
  /\ r.job_title = p.job_title
  /\ r.data_source = p.data_source
  /\ p.organization_id # NULL
  /\ r.organization_id = p.organization_id

\* ON CONFLICT (job_id, data_source, organization_id): the unique index
\* unique_job_vacancy finds a row equal on the three columns; SQL NULL equals
\* nothing, so a NULL organization_id never conflicts.
Conflicts(r, p) ==
  /\ r.job_id = p.job_id
  /\ r.data_source = p.data_source
  /\ p.organization_id # NULL
  /\ r.organization_id = p.organization_id

\* A DO UPDATE SET list without end_date.
UpdatedRow_KeepsEndDate(r, p, t) ==
  [r EXCEPT !.job_title = p.job_title,
            !.duty_station = p.duty_station,
            !.language = p.language,
            !.created = t]

\* A DO UPDATE SET list without created = NOW().
UpdatedRow_KeepsCreated(r, p, t) ==
  [r EXCEPT !.job_title = p.job_title,
            !.duty_station = p.duty_station,
            !.language = p.language,
            !.end_date = p.end_date]

\* DO UPDATE SET ... = EXCLUDED. ..., created = NOW(): the row keeps its id and
\* its key columns.
UpdatedRow(r, p, t) ==
  [r EXCEPT !.job_title = p.job_title,
            !.duty_station = p.duty_station,
            !.language = p.language,
            !.end_date = p.end_date,
            !.created = t]

\* RETURNING ... 'inserted' on both branches.
UpsertQuery_AlwaysInserted(rows, id, t, jobData) ==
  LET p == ProposedRow(jobData, id, t)
      hit == {r \in rows : Conflicts(r, p)}
  IN IF hit = {}
     THEN [rows |-> rows \cup {p}, nextId |-> id + 1,
           res |-> [success |-> TRUE, action |-> "inserted", error |-> "none"]]
     ELSE [rows |-> (rows \ hit) \cup {UpdatedRow(r, p, t) : r \in hit},
           nextId |-> id,
           res |-> [success |-> TRUE, action |-> "inserted", error |-> "none"]]

\* The INSERT ... ON CONFLICT ... DO UPDATE ... RETURNING statement on table
\* rows at time t; action is 'inserted' when xmax = 0 and 'updated' otherwise.
UpsertQuery(rows, id, t, jobData) ==
  LET p == ProposedRow(jobData, id, t)
      hit == {r \in rows : Conflicts(r, p)}
  IN IF hit = {}
     THEN [rows |-> rows \cup {p}, nextId |-> id + 1,
           res |-> [success |-> TRUE, action |-> "inserted", error |-> "none"]]
     ELSE [rows |-> (rows \ hit) \cup {UpdatedRow(r, p, t) : r \in hit},
           nextId |-> id,
           res |-> [success |-> TRUE, action |-> "updated", error |-> "none"]]

\* upsertJobVacancy(client, jobData, organizationName) on table rows; dbOk is
\* whether the storage layer executes the statement (FALSE: client.query
\* throws, and the catch returns a failure result).
upsertJobVacancy(rows, id, t, jobData, dbOk) ==
  IF ~validateJobData(jobData, requiredFields).isValid
  THEN [rows |-> rows, nextId |-> id,
        res |-> [success |-> FALSE, action |-> "none", error |-> "validation"]]
  ELSE IF ~dbOk
  THEN [rows |-> rows, nextId |-> id,
        res |-> [success |-> FALSE, action |-> "none", error |-> "database"]]
  ELSE UpsertQuery(rows, id, t, jobData)

\* ------------------------------------------------------------ logETLStatus

\* The CHECK constraint valid_counts of etl_status in database-schema.sql.
valid_counts(row) == row.success_count + row.error_count <= row.processed_count

\* The row logETLStatus inserts: stats.x || 0 for each count.
StatusRow(organizationName, status, processedCount, successCount, errorCount, jobsInDb) ==
  [organization_name |-> organizationName,
   status |-> status,
   processed_count |-> processedCount,
   success_count |-> successCount,
   error_count |-> errorCount,
   jobs_in_db |-> jobsInDb]

\* A tracker that keeps one row per organization and overwrites it.
logETLStatus_Upserts(st, row) ==
  IF \E n \in 1..Len(st.table) : st.table[n].organization_name = row.organization_name
  THEN [st EXCEPT !.table = [n \in 1..Len(st.table) |->
                               IF st.table[n].organization_name = row.organization_name
                               THEN row ELSE st.table[n]]]
  ELSE [st EXCEPT !.table = Append(st.table, row)]

\* logETLStatus on the status store st = [table, rejected, constrained]: the
\* INSERT appends the row to etl_status; where the table carries valid_counts
\* and the row breaks it the INSERT throws, the catch logs the error and
\* returns null, and the row is not stored (it is kept in rejected).
logETLStatus(st, row) ==
  IF st.constrained /\ ~valid_counts(row)
  THEN [st EXCEPT !.rejected = Append(st.rejected, row)]
  ELSE [st EXCEPT !.table = Append(st.table, row)]

\* getJobCount(organizationName): COUNT(*) of the rows whose data_source is
\* the lower-cased organization name.
LowerCase(name) ==
  CASE name = "WFP" -> "wfp"
    [] name = "INSPIRA" -> "inspira"
    [] name = "UNFPA" -> "unfpa"
    [] name = "UNESCO" -> "unesco"
    [] OTHER -> name

getJobCount(rows, organizationName) ==
  Cardinality({r \in rows : r.data_source = LowerCase(organizationName)})

\* ------------------------------------------- cleanupExpiredAndDuplicateJobs

\* A partition that leaves the source out.
SameGroup_IgnoringSource(a, b) ==
  /\ a.job_title = b.job_title
  /\ a.duty_station = b.duty_station
  /\ a.organization_id = b.organization_id

\* PARTITION BY job_title, duty_station, data_source, organization_id.
SameGroup(a, b) ==
  /\ a.job_title = b.job_title
  /\ a.duty_station = b.duty_station
  /\ a.data_source = b.data_source
  /\ a.organization_id = b.organization_id

\* An ascending order: the oldest row of a group would be kept.
RanksBefore_OldestFirst(a, b) ==
  \/ a.created < b.created
  \/ a.created = b.created /\ a.id < b.id

\* ORDER BY created DESC, id DESC: a comes before b.
RanksBefore(a, b) ==
  \/ a.created > b.created
  \/ a.created = b.created /\ a.id > b.id

\* The rows with rn > 1: some other row of their group ranks before them.
DuplicateRows(rows) ==
  {r \in rows : \E o \in rows : o # r /\ SameGroup(o, r) /\ RanksBefore(o, r)}

\* A comparison that takes the deadline falling at the time of the run as
\* passed.
ExpiredRows_IncludingNow(rows, t) ==
  {r \in rows : r.end_date.kind = "date" /\ r.end_date.t <= t}

\* WHERE end_date < NOW(): a NULL end_date compares as unknown.
ExpiredRows(rows, t) ==
  {r \in rows : r.end_date.kind = "date" /\ r.end_date.t < t}

CleanupFailurePoints ==
  {"none", "connect", "count_duplicates", "count_expired", "delete_duplicates",
   "delete_expired"}

NoStats ==
  [totalExpiredJobs |-> 0, totalDuplicateJobs |-> 0, deletedExpiredJobs |-> 0,
   deletedDuplicateJobs |-> 0, errorCount |-> 0]

\* The catch block of cleanupExpiredAndDuplicateJobs: errorCount++, the
\* 'failed' status row, and the rethrow; removed holds the duplicates the
\* run had deleted before it failed.
CleanupThrows(rows, stats, removed) ==
  [rows |-> rows,
   stats |-> [stats EXCEPT !.errorCount = stats.errorCount + 1],
   threw |-> TRUE,
   deleted |-> FALSE,
   removedDuplicates |-> removed,
   removedExpired |-> {},
   log |-> <<StatusRow("database_cleanup", "failed",
                       stats.totalExpiredJobs + stats.totalDuplicateJobs,
                       0, stats.errorCount + 1, 0)>>]

\* client.connect() of a run that was given no client is outside the try: it
\* rejects before any statistics exist, and nothing is logged.
CleanupCannotConnect(rows) ==
  [rows |-> rows, stats |-> NoStats, threw |-> TRUE, deleted |-> FALSE,
   removedDuplicates |-> {}, removedExpired |-> {}, log |-> <<>>]

\* The clean-up with the expired DELETE placed in the else branch of the
\* duplicate DELETE: a run that found duplicates leaves the expired rows.
cleanupExpiredAndDuplicateJobs_ElseIf(rows, t, dryRun, failAt) ==
  LET s1 == [NoStats EXCEPT !.totalDuplicateJobs = Cardinality(DuplicateRows(rows))]
      s2 == [s1 EXCEPT !.totalExpiredJobs = Cardinality(ExpiredRows(rows, t))]
      afterDup == IF s2.totalDuplicateJobs > 0 THEN rows \ DuplicateRows(rows) ELSE rows
      afterExp == IF s2.totalExpiredJobs > 0 /\ s2.totalDuplicateJobs = 0
                  THEN afterDup \ ExpiredRows(afterDup, t) ELSE afterDup
      s4 == [s2 EXCEPT !.deletedDuplicateJobs = Cardinality(rows) - Cardinality(afterDup),
                       !.deletedExpiredJobs = Cardinality(afterDup) - Cardinality(afterExp)]
  IN [rows |-> IF dryRun THEN rows ELSE afterExp,
      stats |-> IF dryRun THEN s2 ELSE s4, threw |-> FALSE,
      deleted |-> ~dryRun /\ s4.deletedExpiredJobs + s4.deletedDuplicateJobs > 0,
      removedDuplicates |-> IF dryRun THEN {} ELSE rows \ afterDup,
      removedExpired |-> IF dryRun THEN {} ELSE afterDup \ afterExp,
      log |-> <<>>]

\* cleanupExpiredAndDuplicateJobs(client, dryRun) on table rows at time t;
\* failAt names the query that throws, if any.  The result holds the table
\* after the run, the statistics, whether the function threw, whether rows
\* were deleted (so that the cache is cleared), the rows each DELETE returned
\* and the status row the run logs.
cleanupExpiredAndDuplicateJobs(rows, t, dryRun, failAt) ==
  LET s1 == [NoStats EXCEPT !.totalDuplicateJobs = Cardinality(DuplicateRows(rows))]
      s2 == [s1 EXCEPT !.totalExpiredJobs = Cardinality(ExpiredRows(rows, t))]
      afterDup == IF s2.totalDuplicateJobs > 0 THEN rows \ DuplicateRows(rows) ELSE rows
      s3 == [s2 EXCEPT !.deletedDuplicateJobs = Cardinality(rows) - Cardinality(afterDup)]
      afterExp == IF s2.totalExpiredJobs > 0
                  THEN afterDup \ ExpiredRows(afterDup, t) ELSE afterDup
      s4 == [s3 EXCEPT !.deletedExpiredJobs =
                          Cardinality(afterDup) - Cardinality(afterExp)]
      quiet(st) == [rows |-> rows, stats |-> st, threw |-> FALSE,
                    deleted |-> FALSE, removedDuplicates |-> {},
                    removedExpired |-> {}, log |-> <<>>]
  IN IF failAt = "connect" THEN CleanupCannotConnect(rows)
     ELSE IF failAt = "count_duplicates" THEN CleanupThrows(rows, NoStats, {})
     ELSE IF failAt = "count_expired" THEN CleanupThrows(rows, s1, {})
     ELSE IF s2.totalExpiredJobs = 0 /\ s2.totalDuplicateJobs = 0 THEN quiet(s2)
     ELSE IF dryRun THEN quiet(s2)
     ELSE IF s2.totalDuplicateJobs > 0 /\ failAt = "delete_duplicates"
     THEN CleanupThrows(rows, s2, {})
     ELSE IF s2.totalExpiredJobs > 0 /\ failAt = "delete_expired"
     THEN CleanupThrows(afterDup, s3, rows \ afterDup)
     ELSE [rows |-> afterExp, stats |-> s4, threw |-> FALSE,
           deleted |-> s4.deletedExpiredJobs + s4.deletedDuplicateJobs > 0,
           removedDuplicates |-> rows \ afterDup,
           removedExpired |-> afterDup \ afterExp,
           log |-> <<StatusRow("database_cleanup", "success",
                               s4.totalExpiredJobs + s4.totalDuplicateJobs,
                               s4.deletedExpiredJobs + s4.deletedDuplicateJobs,
                               s4.errorCount, 0)>>]

\* ------------------------------------------------------- getOrganizationId

\* Text that is matched is a sequence of letters. ILIKE compares without
\* regard to case.
Lower(ch) ==
  CASE ch = "W" -> "w" [] ch = "F" -> "f" [] ch = "P" -> "p"
    [] ch = "U" -> "u" [] ch = "N" -> "n" [] ch = "A" -> "a"
    [] OTHER -> ch
ToLower(text) == [i \in 1..Len(text) |-> Lower(text[i])]

\* value ILIKE '%part%'.
ILike(value, part) ==
  \E i \in 0..(Len(value) - Len(part)) :
     SubSeq(ToLower(value), i + 1, i + Len(part)) = ToLower(part)

\* The table organization.
organization ==
  {[id |-> 7, code |-> <<"W", "F", "P">>, name |-> <<"W", "F", "P">>,
    short_name |-> <<"W", "F", "P">>, long_name |-> <<"W", "F", "P">>],
   [id |-> 9, code |-> <<"U", "N", "F", "P", "A">>, name |-> <<"U", "N", "F", "P", "A">>,
    short_name |-> <<"U", "N", "F", "P", "A">>, long_name |-> <<"U", "N", "F", "P", "A">>]}

\* WHERE code ILIKE $1 OR name ILIKE $1 OR short_name ILIKE $1 OR long_name
\* ILIKE $1, with $1 = '%dept%'.
MatchingOrganizations(dept) ==
  {o \in organization : \/ ILike(o.code, dept) \/ ILike(o.name, dept)
                        \/ ILike(o.short_name, dept) \/ ILike(o.long_name, dept)}

\* What the storage does during one call: it answers ("ok"), the SELECT
\* fails ("query_error"), the connection is refused ("connect_error"), or
\* closing the connection fails ("end_error").
StorageConditions == {"ok", "query_error", "connect_error", "end_error"}

\* getOrganizationId(dept): the outcomes the call can have. client.connect()
\* stands before the try and client.end() in the finally, so a rejection of
\* either leaves the function as a rejection; LIMIT 1 without ORDER BY
\* returns any one of the matching rows.
getOrganizationId(dept, storage) ==
  IF storage \in {"connect_error", "end_error"}
  THEN {[threw |-> TRUE, id |-> NULL]}
  ELSE IF storage = "query_error"
  THEN {[threw |-> FALSE, id |-> <<DefaultOrgId>>]}
  ELSE IF MatchingOrganizations(dept) # {}
  THEN {[threw |-> FALSE, id |-> <<o.id>>] : o \in MatchingOrganizations(dept)}
  ELSE {[threw |-> FALSE, id |-> <<DefaultOrgId>>]}

\* The names connectors ask for: their own literal, in either case, a part
\* of a name that two organizations share, and a name no organization has.
Depts == {<<"W", "F", "P">>, <<"w", "f", "p">>, <<"F", "P">>, <<"I", "M", "O">>}

\* No getOrganizationId call yet; prev is the call before the latest one.
NoOrg == [called |-> FALSE, dept |-> <<>>, storage |-> "ok", threw |-> FALSE,
          id |-> NULL, pending |-> FALSE,
          prev |-> [called |-> FALSE, dept |-> <<>>, threw |-> FALSE, id |-> NULL]]

\* ----------------------------------------------------------------- triggers

\* What calls runEtl: the callback of app.listen and the two cron schedules.
Triggers == {"listen", "cron_6", "cron_18"}

NoMerge == [action |-> "none", job_id |-> "", data_source |-> ""]

\* A trigger that has not fired.
NoRun == [pc |-> "idle", idx |-> 1, last |-> NoMerge]

\* ------------------------------------------------------------- safeApiCall

\* The default of the retries parameter.
DefaultRetries == 3

\* The retries a caller passes: 1 (the health check), 2, or none (the
\* default); 0 asks for no attempt at all.
RetriesArgs == 0..DefaultRetries

\* What one fetch of the loop can come to: a response that parses ("ok"), a
\* response that is not ok ("http_error"), a body that is no JSON
\* ("json_error"), a rejected fetch ("network_error"), or a fetch rejected
\* because the timer has aborted the controller ("abort_error").
FetchOutcomes == {"ok", "http_error", "json_error", "network_error"}

\* clearTimeout(timeoutId) runs as soon as fetch has resolved.
ClearsTimer(outcome) == outcome \in {"ok", "http_error", "json_error"}

\* A loop that ends one attempt late.
IsLastAttempt_OneMore(attempt, retries) == attempt = retries + 1

\* if (attempt === retries).
IsLastAttempt(attempt, retries) == attempt = retries

\* Math.pow(2, attempt) * 1000 milliseconds, in seconds.
Backoff(attempt) == 2 ^ attempt

\* No safeApiCall in progress.
NoApiCall ==
  [pc |-> "idle", retries |-> DefaultRetries, attempt |-> 1, outcomes |-> <<>>,
   waits |-> <<>>, timer |-> "off", result |-> "none", threw |-> FALSE]

\* ------------------------------------------------------------------ UNESCO

\* The entry of etlJobs the UNESCO connector is registered under, and the
\* data_source it writes.
UnescoName == "UNESCO"
UnescoDataSource == "UNESCO"

\* runEtl has not reached the entry.
NoUnescoRun ==
  [pc |-> "idle", left |-> {}, jobsProcessed |-> 0, jobsSuccessful |-> 0,
   jobsErrored |-> 0, threw |-> FALSE]

\* ------------------------------------------------------------- candidates

\* What a connector builds from one item of its source: job_id and job_title
\* come from the source (and may be missing), data_source is the connector's
\* own literal and organization_id the id getOrganizationId returned.
Candidate(job_id, data_source, organization_id, payload) ==
  [job_id |-> job_id,
   data_source |-> data_source,
   organization_id |-> organization_id,
   job_title |-> payload.job_title,
   duty_station |-> payload.duty_station,
   language |-> payload.language,
   end_date |-> payload.end_date]

Analyst == [job_title |-> "Analyst", duty_station |-> "Rome", language |-> "FR",
            end_date |-> DateAt(0)]
Driver == [job_title |-> "Driver", duty_station |-> "", language |-> "",
           end_date |-> NullDate]
ValidPayloads == {Analyst, Driver}

NaturalKeys ==
  {<<"j1", "wfp", <<7>>>>, <<"j2", "wfp", <<7>>>>,
   <<"j1", "unfpa", <<7>>>>, <<"j1", "wfp", <<DefaultOrgId>>>>}

\* Candidates that pass validation.
ValidCandidates ==
  {Candidate(k[1], k[2], k[3], p) : k \in NaturalKeys, p \in ValidPayloads}

\* Candidates a source can deliver that fail validation: no job_id, no title,
\* a title over the limit, an unparsable end date.
InvalidCandidates ==
  {Candidate("", "wfp", <<7>>, Analyst),
   Candidate("j1", "wfp", <<7>>, [Analyst EXCEPT !.job_title = ""]),
   Candidate("j1", "wfp", <<7>>, [Analyst EXCEPT !.job_title = "LONG"]),
   Candidate("j1", "wfp", <<7>>, [Analyst EXCEPT !.end_date = InvalidDate])}

Candidates == ValidCandidates \cup InvalidCandidates

\* Candidates no connector builds: data_source or organization_id left out.
UnkeyedCandidates ==
  {Candidate("j1", "", <<7>>, Analyst),
   Candidate("j1", "wfp", NULL, Analyst),
   Candidate("j1", "wfp", NULL, Driver)}

NoCandidate == Candidate("", "", NULL, [Driver EXCEPT !.job_title = ""])
NoResult == [success |-> FALSE, action |-> "none", error |-> "none"]
NoCall == [cand |-> NoCandidate, res |-> NoResult, before |-> {}, repeat |-> FALSE]

\* Two records (rows or candidates) carry the same natural key.
SameKey(a, b) ==
  /\ a.job_id = b.job_id
  /\ a.data_source = b.data_source
  /\ a.organization_id = b.organization_id

\* The rows of a table that carry the natural key of jobData.
WithKeyOf(rows, jobData) == {r \in rows : SameKey(r, jobData)}

\* ------------------------------------------------------------------ actions

mergeVars == <<job_vacancies, nextId, lastCall>>
statusVars == <<etl_status, status_rejected, status_constrained>>
etlVars == <<etl, conn, invoked, merged, cleaned, fetchFailures>>
vars == <<job_vacancies, nextId, now, lastCall, etl_status, status_rejected,
          status_constrained, cacheKeys, etl, conn, invoked, merged, cleaned,
          fetchFailures, faults, cli, org, runs, api, unesco, mig, paging,
          cleanupRun, wrapper, limiter>>
\* The state of the tools and triggers around the pipeline.
\* The state of the components beside the tools.
svcVars == <<wrapper, limiter>>
auxVars == <<paging, cleanupRun, svcVars>>
toolVars == <<org, runs, api, unesco, mig, auxVars>>

\* The environment may let an operation fail (ok = FALSE) while the budget
\* of failures lasts.
MayFail(ok) == ok \/ faults < MaxFaults

\* The registry of runEtl, in its order: the connectors of etlJobs whose
\* code is at hand.
etlJobs == <<"WFP", "INSPIRA", "UNFPA">>

\* The locals of a connector as it starts: page = 0, totalPages = 1. Beside
\* them the run's history: the items it merged (succeeded) and the items it
\* failed on (failedItems).
FreshConn ==
  [page |-> 0, totalPages |-> 1, pending |-> 0, totalProcessed |-> 0,
   totalErrors |-> 0, stopped |-> FALSE, threw |-> FALSE,
   succeeded |-> 0, failedItems |-> 0]

\* No run of the clean-up script yet.
NoCli ==
  [ran |-> FALSE, args |-> "", before |-> {}, t |-> 0, failAt |-> "none",
   result |-> cleanupExpiredAndDuplicateJobs({}, 0, FALSE, "none")]

\* The database as database-schema.sql creates it, unique_job_vacancy
\* included, and no run of the migration.
NoMigration == [constraint |-> TRUE, runs |-> <<>>]

InitPipeline ==
  /\ etl_status = <<>>
  /\ status_rejected = <<>>
  /\ status_constrained = FALSE
  /\ cacheKeys = TRUE
  /\ etl = [pc |-> "idle", idx |-> 1, successful |-> <<>>, failed |-> <<>>,
            totalErrors |-> 0, finalCleanup |-> "none",
            redisFailed |-> FALSE, cleanupThrew |-> FALSE]
  /\ conn = FreshConn
  /\ invoked = <<>>
  /\ merged = {}
  /\ cleaned = {}
  /\ fetchFailures = {}
  /\ faults = 0
  /\ cli = NoCli
  /\ org = NoOrg
  /\ runs = [t \in Triggers |-> NoRun]
  /\ api = NoApiCall
  /\ unesco = NoUnescoRun
  /\ job_vacancies = {}
  /\ nextId = 1
  /\ now = 0
  /\ lastCall = NoCall

\* No statement of a clean-up run yet.
NoCleanupRun == [pc |-> "idle", before |-> {}, stats |-> NoStats, counted |-> 0]

\* executeETLWithTransaction has not been called.
NoWrapperCall ==
  [pc |-> "idle", organizationName |-> "none",
   etlFunction |-> [outcome |-> "success", usesClient |-> FALSE],
   client |-> "none", transaction |-> FALSE, txn |-> "none", writes |-> "none",
   error |-> "none", result |-> "none", rollbackFailed |-> FALSE,
   redisFailed |-> FALSE, threw |-> FALSE]

\* The client addresses requests come from.
IPs == {"10.0.0.1", "10.0.0.2"}

\* rateLimiter has not been called: no middleware yet.
NoLimiter ==
  [windowMs |-> 0, max |-> 0, requests |-> [ip \in {} |-> <<>>],
   passed |-> [ip \in IPs |-> <<>>],
   last |-> [ip |-> "none", status |-> 0, at |-> 0]]

InitAux ==
  /\ paging = "loop"
  /\ cleanupRun = NoCleanupRun
  /\ wrapper = NoWrapperCall
  /\ limiter = NoLimiter

Init == InitPipeline /\ mig = NoMigration /\ InitAux

\* One call upsertJobVacancy(client, jobData, ...) by any caller.
Call(jobData, dbOk) ==
  LET out == upsertJobVacancy(job_vacancies, nextId, now, jobData, dbOk)
  IN /\ out.nextId <= MaxId + 1
     /\ job_vacancies' = out.rows
     /\ nextId' = out.nextId
     /\ lastCall' = [cand |-> jobData, res |-> out.res,
                      before |-> WithKeyOf(job_vacancies, jobData),
                      repeat |-> /\ lastCall.cand = jobData
                                 /\ lastCall.res.action = "inserted"]

Merge ==
  /\ \E jobData \in Candidates, dbOk \in BOOLEAN : Call(jobData, dbOk)
  /\ UNCHANGED <<now, statusVars, cacheKeys, etlVars, faults, cli, toolVars>>

MergeUnkeyed ==
  /\ \E jobData \in UnkeyedCandidates, dbOk \in BOOLEAN : Call(jobData, dbOk)
  /\ UNCHANGED <<now, statusVars, cacheKeys, etlVars, faults, cli, toolVars>>

\* Time passes.
Tick ==
  /\ now < MaxTime
  /\ now' = now + 1
  /\ UNCHANGED <<mergeVars, statusVars, cacheKeys, etlVars, faults, cli, toolVars>>

\* ---------------------------------------------------------------- connectors

\* The connector runEtl is at.
Current == etlJobs[etl.idx]

\* etl-wfp.js and etl-unfpa.js leave the paging loop when a page fetch fails
\* (break); etl-inspira.js logs the error and loops on the same page.
BreaksOnFetchError(name) == name \in {"WFP", "UNFPA"}

\* etl-wfp.js and etl-unfpa.js call validateJobData(jobData), with no
\* required fields, before the upsert and keep the counters totalProcessed
\* and totalErrors; etl-inspira.js does neither.
PreValidates(name) == name \in {"WFP", "UNFPA"}

\* totalPages after a page was fetched: etl-wfp.js sets it only while it is
\* still 1, the others at every page.
NewTotalPages(name, totalPages, reported) ==
  IF name = "WFP" /\ totalPages # 1 THEN totalPages ELSE reported

\* The number of items a fetched page holds.
PageSizes == {0, 1}

\* The candidates a connector builds from the items of its source: a
\* posting, an item without id and one without title; getOrganizationId
\* resolves the connector's organization to id 7.
FeedItems(name) ==
  {Candidate("j1", LowerCase(name), <<7>>, Analyst),
   Candidate("", LowerCase(name), <<7>>, Analyst),
   Candidate("j1", LowerCase(name), <<7>>, [Analyst EXCEPT !.job_title = ""])}

\* The page fetch of the paging loop: fetch(url), response.ok, response.json().
FetchPage ==
  /\ etl.pc = "run"
  /\ conn.pending = 0
  /\ ~conn.stopped
  /\ conn.page < conn.totalPages
  /\ \E ok \in BOOLEAN, reported \in 0..MaxPages, n \in PageSizes :
       /\ MayFail(ok)
       /\ faults' = IF ok THEN faults ELSE faults + 1
       /\ conn' = IF ok
                  THEN [conn EXCEPT
                          !.totalPages = NewTotalPages(Current, conn.totalPages, reported),
                          !.pending = n,
                          !.page = IF n = 0 THEN conn.page + 1 ELSE conn.page]
                  ELSE IF BreaksOnFetchError(Current)
                  THEN [conn EXCEPT !.stopped = TRUE]
                  ELSE conn
       /\ fetchFailures' = IF ok THEN fetchFailures ELSE fetchFailures \cup {Current}
  /\ UNCHANGED <<cli, toolVars, mergeVars, now, statusVars, cacheKeys, etl, invoked, merged, cleaned>>

\* The counters after one item: an item that raised (itemOk = FALSE: the
\* detail fetch or getOrganizationId threw) or that failed the connector's own
\* validation counts as an error, every other item as processed, whatever
\* upsertJobVacancy returned.
CountItem(name, c, asError) ==
  IF ~PreValidates(name) THEN c
  ELSE IF asError THEN [c EXCEPT !.totalErrors = c.totalErrors + 1]
  ELSE [c EXCEPT !.totalProcessed = c.totalProcessed + 1]

\* The locals after the body of the for loop ran for one item; page++ follows
\* the last item of the page.
ItemDone(name, c, asError) ==
  [CountItem(name, c, asError) EXCEPT
     !.pending = c.pending - 1,
     !.page = IF c.pending = 1 THEN c.page + 1 ELSE c.page]

\* The history of the run after one item that was merged (ok) or not.
Outcome(c, ok) ==
  IF ok THEN [c EXCEPT !.succeeded = c.succeeded + 1]
  ELSE [c EXCEPT !.failedItems = c.failedItems + 1]

\* One item of the current page: the body of the for loop.
ProcessItem ==
  /\ etl.pc = "run"
  /\ conn.pending > 0
  /\ \E jobData \in FeedItems(Current), itemOk \in BOOLEAN, dbOk \in BOOLEAN :
       IF ~itemOk \/ (PreValidates(Current) /\ ~validateJobData(jobData, {}).isValid)
       THEN /\ MayFail(itemOk)
            /\ faults' = IF itemOk THEN faults ELSE faults + 1
            /\ conn' = Outcome(ItemDone(Current, conn, TRUE), FALSE)
            /\ lastCall' = NoCall
            /\ UNCHANGED <<job_vacancies, nextId, merged>>
       ELSE /\ Call(jobData, dbOk)
            /\ UNCHANGED faults
            /\ conn' = Outcome(ItemDone(Current, conn, FALSE), lastCall'.res.success)
            /\ merged' = IF lastCall'.res.success
                         THEN merged \cup {<<Current, jobData.job_id,
                                             jobData.data_source,
                                             jobData.organization_id>>}
                         ELSE merged
  /\ UNCHANGED <<cli, toolVars, now, statusVars, cacheKeys, etl, invoked, cleaned, fetchFailures>>

\* The paging loop is over: client.end(), and the connector returns; the
\* result of its last upsertJobVacancy goes out of scope with it.
ConnectorReturns ==
  /\ etl.pc = "run"
  /\ conn.pending = 0
  /\ conn.stopped \/ conn.page >= conn.totalPages
  /\ etl' = [etl EXCEPT !.pc = "finish"]
  /\ lastCall' = NoCall
  /\ UNCHANGED <<cli, toolVars, job_vacancies, nextId, now, statusVars, cacheKeys, conn, invoked,
                 merged, cleaned, fetchFailures, faults>>

\* --------------------------------------------------------------------- runEtl

StatusStore ==
  [table |-> etl_status, rejected |-> status_rejected,
   constrained |-> status_constrained]

\* Log the rows of a sequence (none or one) into a status store.
LogAll(st, rows) == IF rows = <<>> THEN st ELSE logETLStatus(st, rows[1])

\* The natural keys of a set of rows.
KeysOf(rows) == {<<r.job_id, r.data_source, r.organization_id>> : r \in rows}

\* app.listen's callback or a cron trigger calls runEtl(). The table etl_status
\* it will log into was created either from database-schema.sql, with the
\* constraint valid_counts, or by logETLStatus's own CREATE TABLE IF NOT EXISTS,
\* without it.
StartCycle ==
  /\ etl.pc = "idle"
  /\ etl' = [etl EXCEPT !.pc = "log_running"]
  /\ status_constrained' \in BOOLEAN
  /\ UNCHANGED <<cli, toolVars, mergeVars, now, etl_status, status_rejected, cacheKeys, conn,
                 invoked, merged, cleaned, fetchFailures, faults>>

\* await logETLStatus(name, 'running', {startTime, 0, 0, 0}).
LogRunning ==
  /\ etl.pc = "log_running"
  /\ LET st == logETLStatus(StatusStore, StatusRow(Current, "running", 0, 0, 0, 0))
     IN /\ etl_status' = st.table
        /\ status_rejected' = st.rejected
  /\ etl' = [etl EXCEPT !.pc = "invoke"]
  /\ UNCHANGED <<cli, toolVars, mergeVars, now, status_constrained, cacheKeys, conn, invoked,
                 merged, cleaned, fetchFailures, faults>>

\* await func(): the connector opens its connection (client.connect(), outside
\* any try of the connector) and either throws or enters its paging loop.
Invoke ==
  /\ etl.pc = "invoke"
  /\ invoked' = Append(invoked, Current)
  /\ \E connectOk \in BOOLEAN :
       /\ MayFail(connectOk)
       /\ faults' = IF connectOk THEN faults ELSE faults + 1
       /\ IF connectOk
          THEN /\ conn' = FreshConn
               /\ etl' = [etl EXCEPT !.pc = "run"]
          ELSE /\ conn' = [FreshConn EXCEPT !.threw = TRUE]
               /\ etl' = [etl EXCEPT !.pc = "finish"]
  /\ UNCHANGED <<cli, toolVars, mergeVars, now, statusVars, cacheKeys, merged, cleaned, fetchFailures>>

\* The orchestrator's result for a connector that returned (success, counts
\* 0, 0, 0) or threw (failure, counts 0, 0, 1).
ConnectorResult(c) ==
  IF c.threw
  THEN [success |-> FALSE, processedCount |-> 0, successCount |-> 0, errorCount |-> 1]
  ELSE [success |-> TRUE, processedCount |-> 0, successCount |-> 0, errorCount |-> 0]

\* A cycle in which a failure ends the loop over etlJobs.
AfterSource_StopsOnFailure(success) ==
  IF etl.idx = Len(etlJobs) \/ ~success THEN "final_cleanup" ELSE "log_running"

\* Where runEtl goes after a source: the for loop goes on to the next entry
\* of etlJobs, whether the source succeeded or failed, and to the final
\* clean-up after the last one.
AfterSource(success) ==
  IF etl.idx = Len(etlJobs) THEN "final_cleanup" ELSE "log_running"

\* A cycle that treats a source whose connector threw like one that returned.
SourceOutcome_AlwaysSuccess(success, redisOk) == TRUE

\* A cycle in which a Redis error fails the source it follows.
SourceOutcome_FailsOnRedis(success, redisOk) == success /\ redisOk

\* What the orchestrator makes of a source: the try around the Redis calls
\* catches their error, which changes nothing of the outcome.
SourceOutcome(success, redisOk) == success

\* The rest of the loop body of runEtl once func() returned or threw:
\* getJobCount, the terminal status row and, after a success, the Redis
\* clean-up and cleanupExpiredAndDuplicateJobs(), whose throw is caught.
FinishSource ==
  /\ etl.pc = "finish"
  /\ \E redisOk \in BOOLEAN, failAt \in CleanupFailurePoints :
       LET result == ConnectorResult(conn)
           jobsInDb == getJobCount(job_vacancies, Current)
           outcome == SourceOutcome(result.success, redisOk)
           row == StatusRow(Current, IF outcome THEN "success" ELSE "failed",
                            result.processedCount, result.successCount,
                            result.errorCount, jobsInDb)
           st1 == logETLStatus(StatusStore, row)
           clean == cleanupExpiredAndDuplicateJobs(job_vacancies, now, FALSE, failAt)
           st2 == LogAll(st1, clean.log)
           next == AfterSource(outcome)
           nextIdx == IF next = "final_cleanup" THEN etl.idx ELSE etl.idx + 1
           failed == (IF result.success /\ ~redisOk THEN 1 ELSE 0)
                     + (IF result.success /\ clean.threw THEN 1 ELSE 0)
       IN /\ faults + failed <= MaxFaults
          /\ faults' = faults + failed
          /\ IF outcome
             THEN /\ etl' = [etl EXCEPT !.pc = next, !.idx = nextIdx,
                                        !.successful = Append(etl.successful, Current),
                                        !.redisFailed = ~redisOk,
                                        !.cleanupThrew = clean.threw]
                  /\ job_vacancies' = clean.rows
                  /\ cleaned' = cleaned \cup KeysOf(job_vacancies \ clean.rows)
                  /\ etl_status' = st2.table
                  /\ status_rejected' = st2.rejected
                  /\ cacheKeys' = IF redisOk THEN FALSE ELSE cacheKeys
             ELSE /\ (redisOk \/ result.success) /\ failAt = "none"
                  /\ etl' = [etl EXCEPT !.pc = next, !.idx = nextIdx,
                                        !.failed = Append(etl.failed, Current),
                                        !.totalErrors = etl.totalErrors + 1,
                                        !.redisFailed = ~redisOk,
                                        !.cleanupThrew = FALSE]
                  /\ etl_status' = st1.table
                  /\ status_rejected' = st1.rejected
                  /\ UNCHANGED <<job_vacancies, cleaned, cacheKeys>>
  /\ UNCHANGED <<cli, toolVars, nextId, lastCall, now, status_constrained, conn, invoked, merged,
                 fetchFailures>>

\* The final cleanupExpiredAndDuplicateJobs() after the loop; its statistics
\* or its error go into etlResults.finalCleanup, and runEtl returns.
FinalCleanup ==
  /\ etl.pc = "final_cleanup"
  /\ \E redisOk \in BOOLEAN, failAt \in CleanupFailurePoints :
       LET clean == cleanupExpiredAndDuplicateJobs(job_vacancies, now, FALSE, failAt)
           st == LogAll(StatusStore, clean.log)
           failed == (IF clean.deleted /\ ~redisOk THEN 1 ELSE 0)
                     + (IF clean.threw THEN 1 ELSE 0)
       IN /\ faults + failed <= MaxFaults
          /\ faults' = faults + failed
          /\ clean.deleted \/ redisOk
          /\ job_vacancies' = clean.rows
          /\ cleaned' = cleaned \cup KeysOf(job_vacancies \ clean.rows)
          /\ etl_status' = st.table
          /\ status_rejected' = st.rejected
          /\ cacheKeys' = IF clean.deleted /\ redisOk THEN FALSE ELSE cacheKeys
          /\ etl' = [etl EXCEPT !.pc = "done",
                                !.finalCleanup = IF clean.threw THEN "error" ELSE "stats",
                                !.redisFailed = clean.deleted /\ ~redisOk,
                                !.cleanupThrew = clean.threw]
  /\ UNCHANGED <<cli, toolVars, nextId, lastCall, now, status_constrained, conn, invoked, merged,
                 fetchFailures>>

NextEtl ==
  \/ StartCycle \/ LogRunning \/ Invoke \/ FetchPage \/ ProcessItem
  \/ ConnectorReturns \/ FinishSource \/ FinalCleanup \/ Tick
SpecEtl == Init /\ [][NextEtl]_vars

\* ------------------------------------------------------- a source that is down

\* The page fetch while the source is down: fetch rejects, or answers with a
\* status that is not ok, on every attempt, and control goes to the catch
\* block of the paging loop.
FetchPageFails ==
  /\ etl.pc = "run"
  /\ paging = "loop"
  /\ conn.pending = 0
  /\ ~conn.stopped
  /\ conn.page < conn.totalPages
  /\ paging' = "catch"
  /\ fetchFailures' = fetchFailures \cup {Current}
  /\ UNCHANGED <<mergeVars, now, statusVars, cacheKeys, etl, conn, invoked, merged,
                 cleaned, faults, cli, org, runs, api, unesco, mig, cleanupRun,
                 svcVars>>

\* The catch block: etl-wfp.js and etl-unfpa.js break out of the loop,
\* etl-inspira.js logs the error and goes back to the loop condition with
\* page as it was.
CatchFetchError ==
  /\ etl.pc = "run"
  /\ paging = "catch"
  /\ paging' = "loop"
  /\ conn' = IF BreaksOnFetchError(Current) THEN [conn EXCEPT !.stopped = TRUE] ELSE conn
  /\ UNCHANGED <<mergeVars, now, statusVars, cacheKeys, etl, invoked, merged,
                 cleaned, fetchFailures, faults, cli, org, runs, api, unesco, mig,
                 cleanupRun, svcVars>>

\* A cycle of runEtl while every source is down. The event loop runs every
\* step that is ready.
NextOutage ==
  \/ StartCycle \/ LogRunning \/ Invoke \/ FetchPageFails \/ CatchFetchError
  \/ ConnectorReturns \/ FinishSource \/ FinalCleanup \/ Tick
SpecOutage ==
  /\ Init /\ [][NextOutage]_vars
  /\ WF_vars(StartCycle) /\ WF_vars(LogRunning) /\ WF_vars(Invoke)
  /\ WF_vars(FetchPageFails) /\ WF_vars(CatchFetchError)
  /\ WF_vars(ConnectorReturns) /\ WF_vars(FinishSource) /\ WF_vars(FinalCleanup)

\* ------------------------------------------------------ the clean-up script

\* The command lines of cleanup-expired-jobs.js (--help aside).
CliArgs == {"", "--dry-run", "-d"}

\* A script that knows the long flag only.
isDryRun_LongFlagOnly(args) == args = "--dry-run"

\* isDryRun = args.includes('--dry-run') || args.includes('-d').
isDryRun(args) == args \in {"--dry-run", "-d"}

\* A connector merges a record, and drops the result, before the one run of
\* the script that a behaviour holds.
Ingest ==
  /\ ~cli.ran
  /\ \E jobData \in ValidCandidates :
       LET out == upsertJobVacancy(job_vacancies, nextId, now, jobData, TRUE)
       IN /\ out.nextId <= MaxId + 1
          /\ job_vacancies' = out.rows
          /\ nextId' = out.nextId
  /\ UNCHANGED <<lastCall, now, statusVars, cacheKeys, etlVars, faults, cli, toolVars>>

\* main() of cleanup-expired-jobs.js: cleanupExpiredAndDuplicateJobs(null,
\* isDryRun), whose status row is logged and whose deletions clear the cache
\* when Redis answers. (getJobsExpiringSoon before it only reads.)
CleanupScript ==
  /\ ~cli.ran
  /\ \E args \in CliArgs, failAt \in CleanupFailurePoints, redisOk \in BOOLEAN :
       LET clean == cleanupExpiredAndDuplicateJobs(job_vacancies, now,
                                                   isDryRun(args), failAt)
           st == LogAll(StatusStore, clean.log)
           failed == (IF clean.deleted /\ ~redisOk THEN 1 ELSE 0)
                     + (IF clean.threw THEN 1 ELSE 0)
       IN /\ faults + failed <= MaxFaults
          /\ faults' = faults + failed
          /\ clean.deleted \/ redisOk
          /\ job_vacancies' = clean.rows
          /\ etl_status' = st.table
          /\ status_rejected' = st.rejected
          /\ cacheKeys' = IF clean.deleted /\ redisOk THEN FALSE ELSE cacheKeys
          /\ cli' = [ran |-> TRUE, args |-> args, before |-> job_vacancies,
                     t |-> now, failAt |-> failAt, result |-> clean]
  /\ UNCHANGED <<nextId, lastCall, now, status_constrained, etlVars, toolVars>>

NextCleanup == Ingest \/ Tick \/ CleanupScript
SpecCleanup == Init /\ [][NextCleanup]_vars

\* ------------------------------------- the clean-up, statement by statement

\* The postings in the table before a run: one whose deadline has passed
\* when the run counts, and one whose deadline passes a moment later.
CleanupCandidates ==
  {Candidate("j1", "wfp", <<7>>, Analyst),
   Candidate("j2", "wfp", <<7>>, [Driver EXCEPT !.end_date = DateAt(1)]),
   Candidate("j2", "wfp", <<7>>, Analyst)}

cleanupFrame ==
  <<lastCall, statusVars, cacheKeys, etlVars, faults, cli, org, runs, api, unesco, mig,
    paging, svcVars>>

\* A connector merges a record before the run.
CleanupIngest ==
  /\ cleanupRun.pc = "idle"
  /\ \E jobData \in CleanupCandidates :
       LET out == upsertJobVacancy(job_vacancies, nextId, now, jobData, TRUE)
       IN /\ out.nextId <= MaxId + 1
          /\ job_vacancies' = out.rows
          /\ nextId' = out.nextId
  /\ UNCHANGED <<now, cleanupRun, cleanupFrame>>

\* Time passes, also between two statements of the run: each awaited query
\* is a transaction of its own, and NOW() is the time of its transaction.
CleanupTick ==
  /\ now <= MaxTime
  /\ now' = now + 1
  /\ UNCHANGED <<job_vacancies, nextId, cleanupRun, cleanupFrame>>

\* Steps 1 and 2: the counting queries set totalDuplicateJobs and
\* totalExpiredJobs; with nothing found the run returns its stats.
CleanupCount ==
  /\ cleanupRun.pc = "idle"
  /\ LET stats == [NoStats EXCEPT
                     !.totalDuplicateJobs = Cardinality(DuplicateRows(job_vacancies)),
                     !.totalExpiredJobs = Cardinality(ExpiredRows(job_vacancies, now))]
     IN cleanupRun' = [pc |-> IF stats.totalExpiredJobs = 0 /\ stats.totalDuplicateJobs = 0
                              THEN "done" ELSE "counted",
                       before |-> job_vacancies, stats |-> stats, counted |-> now]
  /\ UNCHANGED <<job_vacancies, nextId, now, cleanupFrame>>

\* Step 3: the duplicate DELETE, if duplicates were counted; its rowCount
\* becomes deletedDuplicateJobs.
CleanupDeleteDuplicates ==
  /\ cleanupRun.pc = "counted"
  /\ LET after == IF cleanupRun.stats.totalDuplicateJobs > 0
                  THEN job_vacancies \ DuplicateRows(job_vacancies) ELSE job_vacancies
     IN /\ job_vacancies' = after
        /\ cleanupRun' = [cleanupRun EXCEPT
                            !.pc = "deduplicated",
                            !.stats.deletedDuplicateJobs =
                               Cardinality(job_vacancies) - Cardinality(after)]
  /\ UNCHANGED <<nextId, now, cleanupFrame>>

\* Step 4: DELETE ... WHERE end_date < NOW(), if expired rows were counted;
\* its rowCount becomes deletedExpiredJobs, and the run returns its stats.
CleanupDeleteExpired ==
  /\ cleanupRun.pc = "deduplicated"
  /\ LET after == IF cleanupRun.stats.totalExpiredJobs > 0
                  THEN job_vacancies \ ExpiredRows(job_vacancies, now) ELSE job_vacancies
     IN /\ job_vacancies' = after
        /\ cleanupRun' = [cleanupRun EXCEPT
                            !.pc = "done",
                            !.stats.deletedExpiredJobs =
                               Cardinality(job_vacancies) - Cardinality(after)]
  /\ UNCHANGED <<nextId, now, cleanupFrame>>

NextCleanupRun ==
  \/ CleanupIngest \/ CleanupTick \/ CleanupCount \/ CleanupDeleteDuplicates
  \/ CleanupDeleteExpired
SpecCleanupRun == Init /\ [][NextCleanupRun]_vars

\* ------------------------------------------------ executeETLWithTransaction

\* The ETL functions a caller may pass: one that resolves with success, one
\* that resolves with {success: false}, one that throws; each either writes
\* through the client it is given or, like the function runEtl passes, leaves
\* the client alone and writes through connections of its own.
EtlFunctions == [outcome : {"success", "failure", "throws"}, usesClient : BOOLEAN]

wrapperFrame ==
  <<mergeVars, now, statusVars, etlVars, faults, cli, org, runs, api, unesco, mig,
    paging, cleanupRun, limiter>>

\* A caller calls executeETLWithTransaction(organizationName, etlFunction):
\* new Client(credentials), transaction undefined.
CallWrapper ==
  /\ wrapper.pc \in {"idle", "returned"}
  /\ \E i \in 1..Len(etlJobs), f \in EtlFunctions :
       wrapper' = [NoWrapperCall EXCEPT !.pc = "connect", !.organizationName = etlJobs[i],
                                        !.etlFunction = f, !.client = "new"]
  /\ UNCHANGED <<cacheKeys, wrapperFrame>>

\* Control enters the catch block with the error of the statement that threw.
WrapperCatches(w, error) == [w EXCEPT !.pc = "catch", !.error = error]

\* await client.connect(), first statement of the try block.
WrapperConnect ==
  /\ wrapper.pc = "connect"
  /\ \E ok \in BOOLEAN :
       wrapper' = IF ok THEN [wrapper EXCEPT !.pc = "begin", !.client = "connected"]
                  ELSE WrapperCatches(wrapper, "connect")
  /\ UNCHANGED <<cacheKeys, wrapperFrame>>

\* await client.query('BEGIN'); transaction = true.
WrapperBegin ==
  /\ wrapper.pc = "begin"
  /\ \E ok \in BOOLEAN :
       wrapper' = IF ok THEN [wrapper EXCEPT !.pc = "count", !.txn = "open",
                                             !.transaction = TRUE]
                  ELSE WrapperCatches(wrapper, "begin")
  /\ UNCHANGED <<cacheKeys, wrapperFrame>>

\* The SELECT COUNT(*) of the source's rows before the ETL function runs.
WrapperCountBefore ==
  /\ wrapper.pc = "count"
  /\ \E ok \in BOOLEAN :
       wrapper' = IF ok THEN [wrapper EXCEPT !.pc = "etl"]
                  ELSE WrapperCatches(wrapper, "count")
  /\ UNCHANGED <<cacheKeys, wrapperFrame>>

\* What has become of the ETL function's writes once it has run: pending in
\* the wrapper's transaction when it wrote through the client, already
\* committed by its own connections otherwise.
WritesOf(f) == IF f.usesClient THEN "pending" ELSE "autocommitted"

\* const result = await etlFunction(client); a result without success is
\* thrown as an Error.
WrapperRunsEtlFunction ==
  /\ wrapper.pc = "etl"
  /\ LET w == [wrapper EXCEPT !.writes = WritesOf(wrapper.etlFunction)]
     IN wrapper' = CASE wrapper.etlFunction.outcome = "success" ->
                          [w EXCEPT !.pc = "commit"]
                     [] wrapper.etlFunction.outcome = "failure" ->
                          WrapperCatches(w, "etl_failure")
                     [] OTHER -> WrapperCatches(w, "etl_threw")
  /\ UNCHANGED <<cacheKeys, wrapperFrame>>

\* await client.query('COMMIT'); transaction = false.
WrapperCommit ==
  /\ wrapper.pc = "commit"
  /\ \E ok \in BOOLEAN :
       wrapper' = IF ok
                  THEN [wrapper EXCEPT !.pc = "cache", !.txn = "committed",
                                       !.transaction = FALSE,
                                       !.writes = IF @ = "pending" THEN "committed" ELSE @]
                  ELSE WrapperCatches(wrapper, "commit")
  /\ UNCHANGED <<cacheKeys, wrapperFrame>>

\* The Redis block after the commit, in a try of its own, then return result.
WrapperClearsCache ==
  /\ wrapper.pc = "cache"
  /\ \E redisOk \in BOOLEAN :
       /\ wrapper' = [wrapper EXCEPT !.pc = "finally", !.result = "success",
                                     !.redisFailed = ~redisOk]
       /\ cacheKeys' = IF redisOk THEN FALSE ELSE cacheKeys
  /\ UNCHANGED wrapperFrame

\* A catch block whose ROLLBACK is not in a try of its own.
AfterRollback_Unguarded(ok) == [rollbackFailed |-> ~ok, threw |-> ~ok]

\* The catch block once ROLLBACK has settled: a rollback error is caught and
\* logged, and the block goes on to its return statement.
AfterRollback(ok) == [rollbackFailed |-> ~ok, threw |-> FALSE]

\* The catch block: ROLLBACK if transaction is set, then
\* return {success: false, error: error.message, organizationName}.
WrapperCatch ==
  /\ wrapper.pc = "catch"
  /\ \E ok \in BOOLEAN :
       /\ wrapper.transaction \/ ok
       /\ LET after == IF wrapper.transaction THEN AfterRollback(ok)
                       ELSE [rollbackFailed |-> FALSE, threw |-> FALSE]
              rolled == wrapper.transaction /\ ok
          IN wrapper' = [wrapper EXCEPT
                           !.pc = "finally",
                           !.txn = IF rolled THEN "rolled_back" ELSE @,
                           !.writes = IF rolled /\ @ = "pending" THEN "discarded" ELSE @,
                           !.rollbackFailed = after.rollbackFailed,
                           !.threw = after.threw,
                           !.result = IF after.threw THEN "none" ELSE "failure"]
  /\ UNCHANGED <<cacheKeys, wrapperFrame>>

\* finally: await client.end(). The server aborts a transaction still open
\* when its session ends.
WrapperFinally ==
  /\ wrapper.pc = "finally"
  /\ wrapper' = [wrapper EXCEPT
                   !.pc = "returned", !.client = "ended",
                   !.txn = IF @ = "open" THEN "aborted" ELSE @,
                   !.writes = IF wrapper.txn = "open" /\ @ = "pending"
                              THEN "discarded" ELSE @]
  /\ UNCHANGED <<cacheKeys, wrapperFrame>>

NextWrapper ==
  \/ CallWrapper \/ WrapperConnect \/ WrapperBegin \/ WrapperCountBefore
  \/ WrapperRunsEtlFunction \/ WrapperCommit \/ WrapperClearsCache
  \/ WrapperCatch \/ WrapperFinally

SpecWrapper == Init /\ [][NextWrapper]_vars

\* --------------------------------------------------------------- rateLimiter

\* The arguments rateLimiter is called with, in ticks of the clock.
WindowLengths == {1, 2}
Limits == {1, 2}

limiterFrame ==
  <<mergeVars, statusVars, cacheKeys, etlVars, faults, cli, org, runs, api, unesco,
    mig, paging, cleanupRun, wrapper>>

\* router.use(rateLimiter(windowMs, max)): const requests = new Map().
CreateLimiter ==
  /\ limiter = NoLimiter
  /\ \E windowMs \in WindowLengths, max \in Limits :
       limiter' = [NoLimiter EXCEPT !.windowMs = windowMs, !.max = max]
  /\ UNCHANGED <<now, limiterFrame>>

\* Date.now() moves on between two requests.
LimiterTick ==
  /\ limiter # NoLimiter
  /\ now <= MaxTime
  /\ now' = now + 1
  /\ UNCHANGED <<limiter, limiterFrame>>

\* requestTimes.filter(time => time > windowStart)
recentRequests(requestTimes, windowStart) ==
  SelectSeq(requestTimes, LAMBDA time : time > windowStart)

\* A limit that is reached one request late.
Exceeded_OffByOne(recent, max) == Len(recent) > max

\* if (recentRequests.length >= max)
Exceeded(recent, max) == Len(recent) >= max

\* The Map after requests.set(ip, times).
MapSet(map, ip, times) ==
  [k \in DOMAIN map \cup {ip} |-> IF k = ip THEN times ELSE map[k]]

\* The middleware on one request of a client: 429 when the client's recent
\* requests have reached max, else the time is recorded and next() called.
LimitRequest ==
  /\ limiter # NoLimiter
  /\ \E ip \in IPs :
       LET windowStart == now - limiter.windowMs
           known == IF ip \in DOMAIN limiter.requests THEN limiter.requests
                    ELSE MapSet(limiter.requests, ip, <<>>)
           recent == recentRequests(known[ip], windowStart)
       IN IF Exceeded(recent, limiter.max)
          THEN limiter' = [limiter EXCEPT
                             !.requests = known,
                             !.last = [ip |-> ip, status |-> 429, at |-> now]]
          ELSE limiter' = [limiter EXCEPT
                             !.requests = MapSet(known, ip, Append(recent, now)),
                             !.passed[ip] = Append(@, now),
                             !.last = [ip |-> ip, status |-> 200, at |-> now]]
  /\ UNCHANGED <<now, limiterFrame>>

NextLimiter == CreateLimiter \/ LimiterTick \/ LimitRequest

SpecLimiter == Init /\ [][NextLimiter]_vars

\* ------------------------------------------------- resolving organizations

\* const orgId = await getOrganizationId(dept) of a connector's item loop.
ResolveOrg ==
  /\ ~org.pending
  /\ \E dept \in Depts, storage \in StorageConditions :
       \E out \in getOrganizationId(dept, storage) :
          /\ MayFail(storage = "ok")
          /\ faults' = IF storage = "ok" THEN faults ELSE faults + 1
          /\ org' = [called |-> TRUE, dept |-> dept, storage |-> storage,
                     threw |-> out.threw, id |-> out.id, pending |-> TRUE,
                     prev |-> [called |-> org.called, dept |-> org.dept,
                               threw |-> org.threw, id |-> org.id]]
  /\ UNCHANGED <<mergeVars, now, statusVars, cacheKeys, etlVars, cli, runs, api, unesco, mig, auxVars>>

\* The rest of the item's try block: the connector puts orgId into jobData
\* and merges it; a getOrganizationId that raised has left the block.
MergeResolved ==
  /\ org.pending
  /\ IF org.threw
     THEN UNCHANGED <<job_vacancies, nextId>>
     ELSE \E payload \in ValidPayloads :
            LET out == upsertJobVacancy(job_vacancies, nextId, now,
                                        Candidate("j1", "wfp", org.id, payload), TRUE)
            IN /\ out.nextId <= MaxId + 1
               /\ job_vacancies' = out.rows
               /\ nextId' = out.nextId
  /\ org' = [org EXCEPT !.pending = FALSE]
  /\ UNCHANGED <<lastCall, now, statusVars, cacheKeys, etlVars, faults, cli, runs, api, unesco, mig, auxVars>>

NextResolver == ResolveOrg \/ MergeResolved \/ Tick
SpecResolver == Init /\ [][NextResolver]_vars

\* ---------------------------------------------------------- triggered cycles

\* A trigger fires and calls runEtl: app.listen's callback once, at start-up,
\* a cron schedule at each of its times. Nothing looks at the calls that are
\* still in progress.
StartRun(t) ==
  /\ runs[t].pc = IF t = "listen" THEN "idle" ELSE runs[t].pc
  /\ runs[t].pc \in {"idle", "done"}
  /\ runs' = [runs EXCEPT ![t] = [pc |-> "connector", idx |-> 1, last |-> NoMerge]]
  /\ UNCHANGED <<mergeVars, now, statusVars, cacheKeys, etlVars, faults, cli, org, api, unesco, mig, auxVars>>

\* await func() of the call of trigger t: the connector at idx fetches its
\* page and merges the posting on it, if any, with one upsert statement.
\* (The status rows and the cache of a cycle are in SpecEtl.)
RunConnector(t) ==
  /\ runs[t].pc = "connector"
  /\ \E n \in PageSizes :
       LET name == etlJobs[runs[t].idx]
           jobData == Candidate("j1", LowerCase(name), <<7>>, Analyst)
           out == upsertJobVacancy(job_vacancies, nextId, now, jobData, TRUE)
       IN IF n = 0
          THEN /\ runs' = [runs EXCEPT ![t].pc = "cleanup", ![t].last = NoMerge]
               /\ UNCHANGED <<job_vacancies, nextId>>
          ELSE /\ out.nextId <= MaxId + 1
               /\ job_vacancies' = out.rows
               /\ nextId' = out.nextId
               /\ runs' = [runs EXCEPT ![t].pc = "cleanup",
                                       ![t].last = [action |-> out.res.action,
                                                    job_id |-> jobData.job_id,
                                                    data_source |-> jobData.data_source]]
  /\ UNCHANGED <<lastCall, now, statusVars, cacheKeys, etlVars, faults, cli, org, api, unesco, mig, auxVars>>

\* The cleanupExpiredAndDuplicateJobs() that follows the connector; then the
\* loop goes to the next entry of etlJobs, or leaves for the final clean-up.
RunCleanup(t) ==
  /\ runs[t].pc = "cleanup"
  /\ job_vacancies' = cleanupExpiredAndDuplicateJobs(job_vacancies, now, FALSE, "none").rows
  /\ runs' = [runs EXCEPT ![t].pc = IF runs[t].idx = Len(etlJobs)
                                     THEN "final_cleanup" ELSE "connector",
                          ![t].idx = IF runs[t].idx = Len(etlJobs)
                                      THEN runs[t].idx ELSE runs[t].idx + 1]
  /\ UNCHANGED <<nextId, lastCall, now, statusVars, cacheKeys, etlVars, faults, cli, org, api, unesco, mig, auxVars>>

\* The final clean-up of the call of trigger t, and its return.
RunReturns(t) ==
  /\ runs[t].pc = "final_cleanup"
  /\ job_vacancies' = cleanupExpiredAndDuplicateJobs(job_vacancies, now, FALSE, "none").rows
  /\ runs' = [runs EXCEPT ![t].pc = "done"]
  /\ UNCHANGED <<nextId, lastCall, now, statusVars, cacheKeys, etlVars, faults, cli, org, api, unesco, mig, auxVars>>

NextTriggers ==
  \/ \E t \in Triggers : StartRun(t) \/ RunConnector(t) \/ RunCleanup(t) \/ RunReturns(t)
  \/ Tick
SpecTriggers == Init /\ [][NextTriggers]_vars

\* --------------------------------------------------------------- API calls

apiFrame ==
  <<mergeVars, now, statusVars, cacheKeys, etlVars, faults, cli, org, runs, unesco, mig, auxVars>>

\* A connector calls safeApiCall(url, options, retries): the controller and
\* its timer are created, and the loop starts with attempt = 1.
ApiCall ==
  /\ api.pc \in {"idle", "returned"}
  /\ \E retries \in RetriesArgs :
       api' = [NoApiCall EXCEPT !.pc = "fetch", !.retries = retries, !.timer = "armed"]
  /\ UNCHANGED apiFrame

\* The timer fires and aborts the controller, which stays aborted for the
\* rest of the call.
ApiTimeout ==
  /\ api.pc \in {"fetch", "backoff"}
  /\ api.timer = "armed"
  /\ api' = [api EXCEPT !.timer = "fired"]
  /\ UNCHANGED apiFrame

\* One pass of the loop body: the fetch with its outcome, then the return of
\* the result, or the catch, which returns the failure at the last attempt
\* and otherwise goes to wait.
ApiAttempt ==
  /\ api.pc = "fetch"
  /\ api.attempt <= api.retries
  /\ \E outcome \in IF api.timer = "fired" THEN {"abort_error"} ELSE FetchOutcomes :
       LET made == [api EXCEPT !.outcomes = Append(api.outcomes, outcome),
                               !.timer = IF ClearsTimer(outcome) THEN "off" ELSE api.timer]
       IN api' = IF outcome = "ok"
                 THEN [made EXCEPT !.pc = "returned", !.result = "success"]
                 ELSE IF IsLastAttempt(api.attempt, api.retries)
                 THEN [made EXCEPT !.pc = "returned", !.result = "failure"]
                 ELSE [made EXCEPT !.pc = "backoff"]
  /\ UNCHANGED apiFrame

\* The loop ran out without a return: the function returns undefined.
ApiFallsThrough ==
  /\ api.pc = "fetch"
  /\ api.attempt > api.retries
  /\ api' = [api EXCEPT !.pc = "returned", !.result = "undefined"]
  /\ UNCHANGED apiFrame

\* The wait before the next attempt is over: attempt++.
ApiBackoff ==
  /\ api.pc = "backoff"
  /\ api' = [api EXCEPT !.pc = "fetch",
                        !.waits = Append(api.waits, Backoff(api.attempt)),
                        !.attempt = api.attempt + 1]
  /\ UNCHANGED apiFrame

NextApi == ApiCall \/ ApiTimeout \/ ApiAttempt \/ ApiFallsThrough \/ ApiBackoff
\* The event loop runs every continuation that is ready, and every timer
\* that was set fires.
SpecApi ==
  /\ Init /\ [][NextApi]_vars
  /\ WF_vars(ApiAttempt) /\ WF_vars(ApiBackoff) /\ WF_vars(ApiFallsThrough)

\* ------------------------------------------------------- the UNESCO source

unescoFrame == <<etlVars, cli, org, runs, api, mig, auxVars>>

\* runEtl at the entry UNESCO: the 'running' row.
UnescoLogRunning ==
  /\ unesco.pc = "idle"
  /\ LET st == logETLStatus(StatusStore, StatusRow(UnescoName, "running", 0, 0, 0, 0))
     IN /\ etl_status' = st.table
        /\ status_rejected' = st.rejected
  /\ unesco' = [unesco EXCEPT !.pc = "invoke"]
  /\ UNCHANGED <<mergeVars, now, status_constrained, cacheKeys, faults, unescoFrame>>

\* await func(): fetchAndProcessUnescoJobVacancies connects, resolves its
\* organization and scrapes the listings; an error of the connection is
\* rethrown by the outer catch.
UnescoInvoke ==
  /\ unesco.pc = "invoke"
  /\ \E connectOk \in BOOLEAN, listings \in SUBSET {"j1", "j2"} :
       /\ MayFail(connectOk)
       /\ faults' = IF connectOk THEN faults ELSE faults + 1
       /\ unesco' = IF connectOk
                    THEN [unesco EXCEPT !.pc = "items", !.left = listings]
                    ELSE [unesco EXCEPT !.pc = "returned", !.threw = TRUE]
  /\ UNCHANGED <<mergeVars, now, statusVars, cacheKeys, unescoFrame>>

\* One pass of the loop over the listings: the details are scraped, the
\* record is built with data_source 'UNESCO', validated and merged, and the
\* counters follow the result of the upsert.
UnescoItem ==
  /\ unesco.pc = "items"
  /\ \E job_id \in unesco.left, detailsOk \in BOOLEAN, payload \in ValidPayloads,
        dbOk \in BOOLEAN :
       LET jobData == Candidate(job_id, UnescoDataSource, <<7>>, payload)
           out == upsertJobVacancy(job_vacancies, nextId, now, jobData, dbOk)
           skipped == ~detailsOk \/ ~validateJobData(jobData, {}).isValid
           res == IF skipped THEN [rows |-> job_vacancies, nextId |-> nextId,
                                   res |-> NoResult]
                  ELSE out
       IN /\ MayFail(detailsOk)
          /\ faults' = IF detailsOk THEN faults ELSE faults + 1
          /\ res.nextId <= MaxId + 1
          /\ job_vacancies' = res.rows
          /\ nextId' = res.nextId
          /\ unesco' = [unesco EXCEPT
                          !.left = unesco.left \ {job_id},
                          !.jobsProcessed = unesco.jobsProcessed + 1,
                          !.jobsSuccessful = IF res.res.success
                                             THEN unesco.jobsSuccessful + 1
                                             ELSE unesco.jobsSuccessful,
                          !.jobsErrored = IF res.res.success
                                          THEN unesco.jobsErrored
                                          ELSE unesco.jobsErrored + 1]
  /\ UNCHANGED <<lastCall, now, statusVars, cacheKeys, unescoFrame>>

\* The loop is over: client.end() in the finally, and the connector returns.
UnescoReturns ==
  /\ unesco.pc = "items"
  /\ unesco.left = {}
  /\ unesco' = [unesco EXCEPT !.pc = "returned"]
  /\ UNCHANGED <<mergeVars, now, statusVars, cacheKeys, faults, unescoFrame>>

\* runEtl after the connector: jobsInDb = await getJobCount(name), the
\* terminal row, and after a success the cache clearing and the clean-up.
UnescoFinish ==
  /\ unesco.pc = "returned"
  /\ LET result == ConnectorResult(unesco)
         jobsInDb == getJobCount(job_vacancies, UnescoName)
         row == StatusRow(UnescoName, IF result.success THEN "success" ELSE "failed",
                          result.processedCount, result.successCount,
                          result.errorCount, jobsInDb)
         st1 == logETLStatus(StatusStore, row)
         clean == cleanupExpiredAndDuplicateJobs(job_vacancies, now, FALSE, "none")
         st2 == LogAll(st1, clean.log)
     IN IF result.success
        THEN /\ job_vacancies' = clean.rows
             /\ etl_status' = st2.table
             /\ status_rejected' = st2.rejected
             /\ cacheKeys' = FALSE
        ELSE /\ etl_status' = st1.table
             /\ status_rejected' = st1.rejected
             /\ UNCHANGED <<job_vacancies, cacheKeys>>
  /\ unesco' = [unesco EXCEPT !.pc = "done"]
  /\ UNCHANGED <<nextId, lastCall, now, status_constrained, faults, unescoFrame>>

NextUnesco ==
  \/ UnescoLogRunning \/ UnescoInvoke \/ UnescoItem \/ UnescoReturns
  \/ UnescoFinish \/ Tick
SpecUnesco == Init /\ [][NextUnesco]_vars

\* ---------------------------------------------- migrateToPrevantDuplicates

\* GROUP BY job_id, data_source, organization_id HAVING COUNT(*) > 1: the
\* keys more than one row carries. (Grouping puts NULLs in one group.)
DuplicateGroups(rows) ==
  {<<r.job_id, r.data_source, r.organization_id>> :
     r \in {x \in rows : \E o \in rows : o # x /\ SameKey(o, x)}}

\* The rows with rn > 1 over PARTITION BY job_id, data_source,
\* organization_id ORDER BY created DESC, id DESC.
KeyDuplicates(rows) ==
  {r \in rows : \E o \in rows : o # r /\ SameKey(o, r) /\ RanksBefore(o, r)}

\* The queries of the migration that can be made to throw, and client.end()
\* of its finally block.
MigrationFailurePoints ==
  {"none", "connect", "count_duplicates", "delete_duplicates", "add_constraint",
   "create_index", "end"}

\* migrateToPrevantDuplicates() on table rows, constraint telling whether
\* unique_job_vacancy exists; failAt names the query that throws, if it is
\* reached. The result holds the table and the constraint after the run,
\* whether a query threw, whether the function returned {success: true}, and
\* the rows its DELETE removed.
migrateToPrevantDuplicates(rows, constraint, failAt) ==
  LET duplicateGroups == Cardinality(DuplicateGroups(rows))
      Caught(r, c) == [rows |-> r, constraint |-> c, threw |-> TRUE,
                       success |-> FALSE, deleted |-> rows \ r]
      afterDelete == IF duplicateGroups > 0 THEN rows \ KeyDuplicates(rows) ELSE rows
  IN IF failAt \in {"connect", "count_duplicates"} THEN Caught(rows, constraint)
     ELSE IF failAt = "delete_duplicates" /\ duplicateGroups > 0
     THEN Caught(rows, constraint)
     ELSE IF failAt = "add_constraint" /\ ~constraint
     THEN Caught(afterDelete, constraint)
     ELSE IF failAt = "create_index" THEN Caught(afterDelete, TRUE)
     ELSE [rows |-> afterDelete, constraint |-> TRUE, threw |-> failAt = "end",
           success |-> failAt # "end", deleted |-> rows \ afterDelete]

\* What a connector delivers around the migration: a posting, the same
\* posting changed, and another posting.
MigrationCandidates ==
  {Candidate("j1", "wfp", <<7>>, Analyst), Candidate("j1", "wfp", <<7>>, Driver),
   Candidate("j2", "wfp", <<7>>, Analyst)}

\* What the connectors wrote before the merge existed: the same, and a
\* posting whose organization was not resolved.
LegacyCandidates == MigrationCandidates \cup {Candidate("j1", "wfp", NULL, Analyst)}

\* A deployment of any age: with the schema's constraint or from before it.
InitMigration ==
  /\ InitPipeline
  /\ mig \in {NoMigration, [NoMigration EXCEPT !.constraint = FALSE]}
  /\ InitAux

\* The old pattern of the connectors, a plain INSERT INTO job_vacancies, in
\* use until the migration is run; where the constraint exists it rejects a
\* row whose key is taken.
LegacyInsert ==
  /\ mig.runs = <<>>
  /\ nextId <= MaxId
  /\ \E jobData \in LegacyCandidates :
       LET p == ProposedRow(jobData, nextId, now)
       IN /\ mig.constraint => \A r \in job_vacancies : ~Conflicts(r, p)
          /\ job_vacancies' = job_vacancies \cup {p}
          /\ nextId' = nextId + 1
  /\ UNCHANGED <<lastCall, now, statusVars, cacheKeys, etlVars, faults, cli,
                 org, runs, api, unesco, mig, auxVars>>

\* node src/etl/migrate-prevent-duplicates.js, a first and a second time.
Migrate ==
  /\ IF mig.runs = <<>> THEN TRUE ELSE Tail(mig.runs) = <<>>
  /\ \E failAt \in MigrationFailurePoints :
       LET out == migrateToPrevantDuplicates(job_vacancies, mig.constraint, failAt)
       IN /\ MayFail(~out.threw)
          /\ failAt # "none" => out.threw
          /\ faults' = IF out.threw THEN faults + 1 ELSE faults
          /\ job_vacancies' = out.rows
          /\ mig' = [constraint |-> out.constraint,
                     runs |-> Append(mig.runs,
                                     [before |-> job_vacancies, after |-> out.rows,
                                      failAt |-> failAt, success |-> out.success,
                                      deleted |-> out.deleted,
                                      constraint |-> out.constraint])]
  /\ UNCHANGED <<nextId, lastCall, now, statusVars, cacheKeys, etlVars, cli,
                 org, runs, api, unesco, auxVars>>

\* The connectors after the migration: upsertJobVacancy, whose ON CONFLICT
\* needs the constraint.
MergeAfterMigration ==
  /\ mig.runs # <<>>
  /\ mig.constraint
  /\ \E jobData \in MigrationCandidates :
       LET out == upsertJobVacancy(job_vacancies, nextId, now, jobData, TRUE)
       IN /\ out.nextId <= MaxId + 1
          /\ job_vacancies' = out.rows
          /\ nextId' = out.nextId
  /\ UNCHANGED <<lastCall, now, statusVars, cacheKeys, etlVars, faults, cli, toolVars>>

NextMigration == LegacyInsert \/ Migrate \/ MergeAfterMigration \/ Tick
SpecMigration == InitMigration /\ [][NextMigration]_vars

NextMerge == Merge \/ Tick
SpecMerge == Init /\ [][NextMerge]_vars

NextAnyCandidate == Merge \/ MergeUnkeyed \/ Tick
SpecAnyCandidate == Init /\ [][NextAnyCandidate]_vars

\* ------------------------------------------------------------------- claims

\* A step that is one call of upsertJobVacancy: neither the clock nor the
\* orchestrator moves, and the call shows in the table or in its result.
CallStep ==
  /\ now' = now
  /\ etl'.pc = etl.pc
  /\ lastCall' # lastCall \/ job_vacancies' # job_vacancies

Content(r) == [r EXCEPT !.created = 0]

\* C2 as stated. Idempotence: the same unchanged candidate merged twice gives
\* 'inserted' then 'updated', and the stored row is identical after the first
\* and after the second call, every column included.
C2_IdempotentWholeRow ==
  [][(/\ CallStep
      /\ lastCall.res.action = "inserted"
      /\ lastCall'.cand = lastCall.cand
      /\ lastCall'.res.success)
     => /\ lastCall'.res.action = "updated"
        /\ WithKeyOf(job_vacancies', lastCall.cand)
             = WithKeyOf(job_vacancies, lastCall.cand)]_vars

\* C2 as amended. Idempotence: the same unchanged candidate merged twice gives
\* 'inserted' then 'updated', and the stored row is identical after both calls
\* in every column except created, which the second call refreshes.
C2_IdempotentContent ==
  [][(/\ CallStep
      /\ lastCall.res.action = "inserted"
      /\ lastCall'.cand = lastCall.cand
      /\ lastCall'.res.success)
     => /\ lastCall'.res.action = "updated"
        /\ Cardinality(WithKeyOf(job_vacancies', lastCall.cand)) = 1
        /\ {Content(r) : r \in WithKeyOf(job_vacancies', lastCall.cand)}
             = {Content(r) : r \in WithKeyOf(job_vacancies, lastCall.cand)}
        /\ \A r \in WithKeyOf(job_vacancies', lastCall.cand) : r.created = now]_vars

\* The second of two merges of one candidate has run, later than the first.
C2_Witness ==
  /\ lastCall.repeat
  /\ lastCall.res.action = "updated"
  /\ \E r \in lastCall.before : r.created < now

\* C3. Branch reporting: a successful call returns 'inserted' exactly when no
\* row with the candidate's key existed before it and 'updated' exactly when
\* one did; on 'updated' the number of rows does not grow.
C3_BranchReporting ==
  [][(CallStep /\ lastCall'.res.success)
     => LET existed == WithKeyOf(job_vacancies, lastCall'.cand) # {}
        IN /\ (lastCall'.res.action = "inserted") <=> ~existed
           /\ (lastCall'.res.action = "updated") <=> existed
           /\ lastCall'.res.action = "updated"
                => Cardinality(job_vacancies') = Cardinality(job_vacancies)]_vars

\* Both branches were reported: the table holds a row of each source and the
\* latest call updated one of them.
C3_Witness ==
  /\ lastCall.res.action = "updated"
  /\ lastCall.before # {}
  /\ \E r1, r2 \in job_vacancies : r1.data_source # r2.data_source

\* C4. Last write wins: when a merge hits an existing key, every mutable field
\* of the stored row is the latest candidate's value (an absent language or
\* duty station is stored as its default, as on insert), created is the time
\* of this merge, and the row keeps its id.
C4_LastWriteWins ==
  [][(CallStep /\ lastCall'.res.action = "updated")
     => LET c == lastCall'.cand
        IN /\ WithKeyOf(job_vacancies', c) # {}
           /\ \A r \in WithKeyOf(job_vacancies', c) :
                 /\ r.job_title = c.job_title
                 /\ r.duty_station = c.duty_station
                 /\ r.language = (IF c.language = "" THEN "EN" ELSE c.language)
                 /\ r.end_date = c.end_date
                 /\ r.created = now
                 /\ \E old \in WithKeyOf(job_vacancies, c) : old.id = r.id]_vars

\* An update replaced a row whose title, end date and timestamp were others.
C4_Witness ==
  /\ lastCall.res.action = "updated"
  /\ \E old \in lastCall.before :
       /\ old.job_title # lastCall.cand.job_title
       /\ old.end_date # lastCall.cand.end_date
       /\ old.created < now

\* The candidate lacks one of the fields the upsert contract requires.
LacksRequired(c) ==
  \/ c.job_id = ""
  \/ c.job_title = ""
  \/ c.data_source = ""
  \/ c.organization_id = NULL

\* C5. Validation: a candidate that lacks job_id, job_title, data_source or
\* organization_id gets a validation failure and nothing is written.
C5_RequiredFieldsValidated ==
  [][(CallStep /\ LacksRequired(lastCall'.cand))
     => /\ lastCall'.res.error = "validation"
        /\ job_vacancies' = job_vacancies]_vars

\* C6 as stated. Persistence failure: when the storage layer rejects a merge,
\* upsertJobVacancy returns a failure instead of throwing, the connector
\* counts the record as an error and not as processed, and it goes on with
\* the remaining records of the page.
C6_RejectedMergeCountedAsError ==
  [][(/\ etl.pc = "run"
      /\ conn'.pending = conn.pending - 1
      /\ lastCall'.res.error = "database")
     => /\ ~lastCall'.res.success
        /\ conn'.totalErrors = conn.totalErrors + 1
        /\ conn'.totalProcessed = conn.totalProcessed
        /\ ~conn'.stopped /\ ~conn'.threw
        /\ etl'.pc = "run"]_vars

\* The source at position i of etlJobs is through: its terminal status is due.
Finished(i) == i < etl.idx \/ etl.pc \in {"final_cleanup", "done"}

\* The positions of etlJobs whose connector has been invoked.
Invoked == 1..Len(invoked)

\* A record some connector merged is in the table.
Present(m) ==
  \E r \in job_vacancies :
     /\ r.job_id = m[2]
     /\ r.data_source = m[3]
     /\ r.organization_id = m[4]

\* Some connector failed between two that merged records.
FailedBetween ==
  \E i, j, k \in 1..Len(etlJobs) :
     /\ i < j /\ j < k
     /\ \E n \in 1..Len(etl.failed) : etl.failed[n] = etlJobs[j]
     /\ \E m \in merged : m[1] = etlJobs[i]
     /\ \E m \in merged : m[1] = etlJobs[k]

\* C7 as stated. Failure isolation: every registered connector is invoked
\* exactly once, in registry order, whether or not earlier ones threw, and the
\* records merged by the connectors before and after a failing connector are
\* in the store when the cycle ends.
C7_MergedRecordsPresentAtEnd ==
  /\ Len(invoked) <= Len(etlJobs)
  /\ \A i \in Invoked : invoked[i] = etlJobs[i]
  /\ etl.pc = "done" => invoked = etlJobs
  /\ (etl.pc = "done" /\ FailedBetween) => \A m \in merged : Present(m)

\* C7 as amended. Failure isolation: every registered connector is invoked
\* exactly once, in registry order, whether or not earlier ones threw, and a
\* record merged by any connector of the cycle is in the store when the cycle
\* ends unless the cycle's own clean-up deleted it as expired or duplicate: the
\* failure of a connector removes nothing.
C7_FailureIsolation ==
  /\ Len(invoked) <= Len(etlJobs)
  /\ \A i \in Invoked : invoked[i] = etlJobs[i]
  /\ etl.pc = "done" => invoked = etlJobs
  /\ \A m \in merged : Present(m) \/ <<m[2], m[3], m[4]>> \in cleaned

\* The cycle ended after the second connector threw, and the records the first
\* and the third merged are in the table.
C7_Witness ==
  /\ etl.pc = "done"
  /\ etl.failed = <<etlJobs[2]>>
  /\ FailedBetween
  /\ \A m \in merged : Present(m)

\* The rows of etl_status of one source with a status among some.
RowsOf(name, statuses) ==
  {n \in 1..Len(etl_status) :
     /\ etl_status[n].organization_name = name
     /\ etl_status[n].status \in statuses}

\* C8 as stated. Run-status state machine: every source the orchestrator runs
\* has one 'running' row recorded before its connector is invoked and, once the
\* connector returned or threw, exactly one terminal row (success or failed)
\* after it; no status row changes once written.
C8_RunStatusMachine ==
  /\ [](\A i \in Invoked :
          LET running == RowsOf(invoked[i], {"running"})
              terminal == RowsOf(invoked[i], {"success", "failed"})
          IN /\ Cardinality(running) = 1
             /\ Cardinality(terminal) = (IF Finished(i) THEN 1 ELSE 0)
             /\ \A r \in running, t \in terminal : r < t)
  /\ [][/\ Len(etl_status') >= Len(etl_status)
        /\ SubSeq(etl_status', 1, Len(etl_status)) = etl_status]_vars

\* C9 as stated. Count invariant: every status row the system writes, for a
\* successful run, a failed run or a clean-up run, has
\* success_count + error_count <= processed_count, and no status write is
\* rejected by valid_counts.
C9_CountInvariant ==
  /\ \A n \in 1..Len(etl_status) : valid_counts(etl_status[n])
  /\ status_rejected = <<>>

\* C10 as stated. Source-level failure: when a page fetch of a connector fails,
\* paging for that source stops, and the orchestrator records the run as
\* 'failed' and lists the source among the failed ones of the cycle.
C10_FetchFailureFailsRun ==
  \A i \in Invoked :
     invoked[i] \in fetchFailures
       => /\ (i = etl.idx /\ etl.pc = "run") => conn.stopped
          /\ Finished(i)
               => /\ \E n \in 1..Len(etl.failed) : etl.failed[n] = invoked[i]
                  /\ \A n \in 1..Len(etl.successful) : etl.successful[n] # invoked[i]
                  /\ RowsOf(invoked[i], {"failed"}) # {}
                  /\ RowsOf(invoked[i], {"success"}) = {}

\* The positions of the status rows a step appends.
NewStatusRows == (Len(etl_status) + 1)..Len(etl_status')

\* C11 as stated. Recorded counts: the processed, success and error counts of
\* a run's terminal status row are the numbers of items the run fetched,
\* merged and failed on (a failed run may add its own failure to the errors).
C11_RecordedCounts ==
  [][etl.pc = "finish"
     => \A n \in NewStatusRows :
          (/\ etl_status'[n].organization_name = Current
           /\ etl_status'[n].status \in {"success", "failed"})
          => /\ etl_status'[n].processed_count = conn.succeeded + conn.failedItems
             /\ etl_status'[n].success_count = conn.succeeded
             /\ etl_status'[n].error_count
                  \in {conn.failedItems,
                       conn.failedItems + (IF conn.threw THEN 1 ELSE 0)}]_vars

\* C12 as stated. Item-level isolation: an item that fails (malformed, invalid,
\* detail fetch failed, storage error) is counted as an error by its
\* connector, which goes on with the next item, and the run of a connector
\* that did not throw ends 'success'.
C12_ItemErrorsCountedNotFatal ==
  [][/\ (etl.pc = "run" /\ conn'.failedItems = conn.failedItems + 1)
          => /\ conn'.totalErrors = conn.totalErrors + 1
             /\ ~conn'.stopped /\ ~conn'.threw
             /\ etl'.pc = "run"
     /\ (etl.pc = "finish" /\ ~conn.threw)
          => etl'.successful = Append(etl.successful, Current)]_vars

\* The row's deadline has not passed at time t: no end_date, or one not
\* before t.
Active(r, t) == ~(r.end_date.kind = "date" /\ r.end_date.t < t)

\* The latest run of the script was live and got past its first statement.
LiveRun == cli.ran /\ cli.args = ""

\* C13. Expired-pass safety: no row that a clean-up run deletes under the
\* expired rule has a null end_date or one at or after the time of the run.
C13_ExpiredPassSafety ==
  cli.ran => \A r \in cli.result.removedExpired :
                /\ r.end_date.kind = "date"
                /\ r.end_date.t < cli.t

\* A live run deleted an expired row and left a row without end_date.
C13_Witness ==
  /\ LiveRun
  /\ cli.result.removedExpired # {}
  /\ \E r \in cli.before \cap job_vacancies : r.end_date.kind = "null"

C15_ExpiredPassCompleteness ==
  (LiveRun /\ ~cli.result.threw)
    => /\ \A r \in cli.result.rows : Active(r, cli.t)
       /\ cli.result.stats.deletedExpiredJobs
            = Cardinality({r \in cli.before : ~Active(r, cli.t)})

\* The rows of the table before the run that share the group of r.
GroupOf(r) ==
  {o \in cli.before :
     /\ o.job_title = r.job_title
     /\ o.duty_station = r.duty_station
     /\ o.data_source = r.data_source
     /\ o.organization_id = r.organization_id}

\* The duplicate step of the latest run of the script ran to its end.
DuplicateStepRan ==
  /\ LiveRun
  /\ cli.result.stats.totalDuplicateJobs > 0
  /\ cli.failAt \in {"none", "delete_expired"}

LiveStats == cleanupExpiredAndDuplicateJobs(cli.before, cli.t, FALSE, "none").stats

\* The script ran with a dry-run flag and did not fail.
DryRun == cli.ran /\ cli.args \in {"--dry-run", "-d"} /\ ~cli.result.threw

\* C17 as stated. Dry-run safety: a dry run returns the statistics the live
\* run would return on the same table, and deletes no row.
C17_DryRunSameStatistics ==
  DryRun => /\ cli.result.stats = LiveStats
            /\ cli.result.rows = cli.before
            /\ job_vacancies = cli.before

\* C17 as amended. Dry-run safety: a dry run returns the counts of expired and
\* duplicate rows found that the live run would return on the same table, its
\* deleted counts are 0, and it deletes no row.
C17_DryRunSameFindings ==
  DryRun => /\ cli.result.stats.totalExpiredJobs = LiveStats.totalExpiredJobs
            /\ cli.result.stats.totalDuplicateJobs = LiveStats.totalDuplicateJobs
            /\ cli.result.stats.deletedExpiredJobs = 0
            /\ cli.result.stats.deletedDuplicateJobs = 0
            /\ cli.result.rows = cli.before
            /\ job_vacancies = cli.before

\* A dry run started with the short flag found an expired row and left it.
C17_Witness ==
  /\ DryRun
  /\ cli.args = "-d"
  /\ cli.result.stats.totalExpiredJobs > 0
  /\ \E r \in job_vacancies : ~Active(r, cli.t)

\* C18 as stated. End of cycle: once all connectors have completed, whatever
\* the mix of success and failure, the cache has been invalidated (unless
\* Redis failed) and the clean-up has been invoked, and neither happens before
\* the last connector has finished.
C18_EndOfCycle ==
  /\ [](etl.pc = "done"
          => /\ etl.finalCleanup # "none"
             /\ ~etl.redisFailed => ~cacheKeys)
  /\ [][(cacheKeys' # cacheKeys \/ cleaned' # cleaned)
          => etl.pc = "final_cleanup"]_vars

\* C19 as stated. Cleanup failure is contained: when the clean-up throws
\* during a cycle, runEtl goes on, the final clean-up's error is recorded in
\* the summary, the status rows already written stay as they are, and the
\* failing clean-up's statistics, with a non-zero error count, are on record.
C19_CleanupFailureContained ==
  [][(etl.pc \in {"finish", "final_cleanup"} /\ etl' # etl /\ etl'.cleanupThrew)
     => /\ etl'.pc \in {"log_running", "final_cleanup", "done"}
        /\ etl.pc = "final_cleanup" => etl'.finalCleanup = "error"
        /\ SubSeq(etl_status', 1, Len(etl_status)) = etl_status
        /\ \E n \in NewStatusRows :
             /\ etl_status'[n].organization_name = "database_cleanup"
             /\ etl_status'[n].error_count > 0]_vars

\* C20. Cache invalidation is best-effort: when the Redis calls fail, the
\* source they follow is still recorded as successful, the deletions of the
\* clean-up are applied, and the cycle goes on; no error reaches the caller.
C20_CacheFailureHarmless ==
  [][(etl.pc \in {"finish", "final_cleanup"} /\ etl' # etl /\ etl'.redisFailed)
     => /\ etl'.pc \in {"log_running", "final_cleanup", "done"}
        /\ etl'.failed = etl.failed
        /\ etl.pc = "finish"
             => /\ etl'.successful = Append(etl.successful, Current)
                /\ \E n \in NewStatusRows :
                     /\ etl_status'[n].organization_name = Current
                     /\ etl_status'[n].status = "success"
        /\ etl.pc = "final_cleanup" => etl'.finalCleanup = "stats"
        /\ ~etl'.cleanupThrew
             => job_vacancies'
                  = cleanupExpiredAndDuplicateJobs(job_vacancies, now, FALSE, "none").rows]_vars

\* Redis failed after a source: the source is listed as successful and the
\* cached entries are still there.
C20_Witness ==
  /\ etl.redisFailed
  /\ etl.pc \in {"log_running", "final_cleanup"}
  /\ etl.successful # <<>>
  /\ cacheKeys

\* C21 as stated. Cleanup invalidates the cache after deleting: a run of the
\* clean-up gets to its Redis calls for the 'jobs:' keys exactly when it is a
\* live run that deleted at least one row.
C21_CacheInvalidatedAfterDeleting ==
  cli.ran => (cli.result.deleted <=> (LiveRun /\ cli.result.rows # cli.before))

\* C22 as stated. Organization resolver totality: getOrganizationId never
\* raises and returns an id, whatever the name and the condition of the
\* storage, and the id is 128 when no organization matches.
C22_ResolverTotal ==
  org.called
    => /\ ~org.threw
       /\ org.id # NULL
       /\ MatchingOrganizations(org.dept) = {} => org.id = <<DefaultOrgId>>

\* The runEtl call of trigger t has started and not returned.
InProgress(t) == runs[t].pc \notin {"idle", "done"}

\* The rows that carry the key of the latest merge of run.
MergedKeyRows(rows, run) ==
  {r \in rows : /\ r.job_id = run.last.job_id
                /\ r.data_source = run.last.data_source
                /\ r.organization_id = <<7>>}

\* C23. Concurrent cycles are safe: however the cycles of the triggers
\* interleave, job_vacancies never holds two rows with the same (job_id,
\* data_source, organization_id), and a merge of a key that another writer
\* has stored reports 'updated', rewrites that row under its id, and adds and
\* removes no row.
C23_ConcurrentCyclesSafe ==
  /\ [](\A r1, r2 \in job_vacancies : SameKey(r1, r2) => r1 = r2)
  /\ [][\A t \in Triggers :
          (/\ runs[t].pc = "connector"
           /\ runs'[t].pc = "cleanup"
           /\ runs'[t].last.action # "none")
          => LET before == MergedKeyRows(job_vacancies, runs'[t])
                 after == MergedKeyRows(job_vacancies', runs'[t])
             IN /\ Cardinality(after) = 1
                /\ job_vacancies \ before = job_vacancies' \ after
                /\ IF before = {}
                   THEN runs'[t].last.action = "inserted"
                   ELSE /\ runs'[t].last.action = "updated"
                        /\ {r.id : r \in after} = {r.id : r \in before}]_vars

\* Two cycles are in progress at once, one has inserted a key and the other
\* has then merged the same key.
C23_Witness ==
  \E t1, t2 \in Triggers :
     /\ t1 # t2
     /\ InProgress(t1) /\ InProgress(t2)
     /\ runs[t1].last.action = "inserted"
     /\ runs[t2].last.action = "updated"
     /\ runs[t1].last.data_source = runs[t2].last.data_source
     /\ MergedKeyRows(job_vacancies, runs[t2]) # {}

\* C24 as stated. One cycle at a time: at most one runEtl call is in progress
\* at any moment, whichever of the start-up trigger and the two schedules
\* made it.
C24_OneCycleAtATime ==
  Cardinality({t \in Triggers : InProgress(t)}) <= 1

\* C25. Bounded retry: safeApiCall makes at most 'retries' attempts, returns
\* success at the first attempt that succeeds and failure after the last
\* attempt failed, waits 2^attempt seconds after each failed attempt that is
\* not the last, does not raise, and returns. (Asked for 0 attempts it makes
\* none and returns undefined.)
C25_BoundedRetry ==
  /\ [](/\ Len(api.outcomes) <= api.retries
        /\ ~api.threw
        /\ \A i \in 1..Len(api.outcomes) :
             api.outcomes[i] = "ok" => (i = Len(api.outcomes) /\ api.result = "success")
        /\ \A i \in 1..Len(api.waits) :
             api.waits[i] = (CASE i = 1 -> 2 [] i = 2 -> 4 [] i = 3 -> 8 [] OTHER -> 16)
        /\ api.pc = "fetch" => Len(api.waits) = Len(api.outcomes)
        /\ api.pc = "returned"
             => /\ api.retries > 0 => /\ api.result \in {"success", "failure"}
                                       /\ Len(api.waits) = Len(api.outcomes) - 1
                /\ api.retries = 0 => api.outcomes = <<>>
                /\ api.result = "failure" => Len(api.outcomes) = api.retries)
  /\ (api.pc \in {"fetch", "backoff"}) ~> (api.pc = "returned")

\* A call with the default retries failed twice, waited 2 and 4 seconds, and
\* returned success at its third attempt.
C25_Witness ==
  /\ api.pc = "returned"
  /\ api.retries = DefaultRetries
  /\ api.result = "success"
  /\ api.waits = <<2, 4>>

\* C26. Stale data persists on failure: no step of a connector removes a row
\* of job_vacancies (every row is still there afterwards, under its id and
\* key), and the end of a run whose connector threw leaves job_vacancies as
\* it was.
C26_ConnectorsRemoveNoRow ==
  [][/\ etl.pc \in {"invoke", "run"}
          => \A r \in job_vacancies :
                \E k \in job_vacancies' : k.id = r.id /\ SameKey(k, r)
     /\ (etl.pc = "finish" /\ conn.threw /\ etl' # etl)
          => job_vacancies' = job_vacancies]_vars

\* A source has just failed while the table held a row whose deadline has
\* passed, and the row is still there.
C26_Witness ==
  /\ etl.pc \in {"log_running", "final_cleanup"}
  /\ etl.failed # <<>>
  /\ conn.threw
  /\ \E r \in job_vacancies : ~Active(r, now)

\* C27 as stated. Live-record count: the jobs_in_db of the terminal status
\* row of a source is the number of rows of job_vacancies that belong to the
\* source (that carry the data_source its connector writes) when the run
\* finishes.
C27_LiveRecordCount ==
  [][(unesco.pc = "returned" /\ unesco'.pc = "done")
     => \A n \in NewStatusRows :
          (/\ etl_status'[n].organization_name = UnescoName
           /\ etl_status'[n].status \in {"success", "failed"})
          => etl_status'[n].jobs_in_db
               = Cardinality({r \in job_vacancies :
                                r.data_source = UnescoDataSource})]_vars

\* The view latest_etl_status for one organization: the position of its most
\* recently created row (0 if it has none).
latest_etl_status(name) ==
  LET mine == RowsOf(name, {"running", "success", "failed"})
  IN IF mine = {} THEN 0 ELSE CHOOSE n \in mine : \A k \in mine : k <= n

Sound(rows) ==
  /\ \A r1, r2 \in rows : SameKey(r1, r2) => r1 = r2
  /\ \A r \in rows : \E jobData \in ValidCandidates :
        r = ProposedRow(jobData, r.id, r.created)

\* C29. Crash safety: wherever the process is terminated, between any two
\* merges of a connector or between the two DELETE statements of a cleanup
\* run, the job store satisfies natural-key uniqueness and holds no partially
\* written record, each write being one atomic upsert or delete statement.
C29_CrashSafety ==
  /\ Sound(job_vacancies)
  /\ cli.ran => Sound(cli.before \ cli.result.removedDuplicates)

\* A record was merged a second time after a later one was inserted, and the
\* cleanup run stopped after its duplicate DELETE with expired rows still in
\* the table.
C29_Witness ==
  /\ cli.ran
  /\ cli.failAt = "delete_expired"
  /\ cli.result.removedDuplicates # {}
  /\ ExpiredRows(job_vacancies, cli.t) # {}
  /\ \E r \in job_vacancies, q \in cli.before : r.id < q.id /\ r.created > q.created

\* The runs of the migration that returned {success: true}.
Succeeded == {n \in 1..Len(mig.runs) : mig.runs[n].success}

\* C30. Migration: after migrateToPrevantDuplicates succeeds, no two rows
\* share (job_id, data_source, organization_id), the surviving row of each
\* former duplicate group is the most recently created one of the group, and
\* the unique constraint exists; a second run of the migration after a
\* successful one deletes nothing, and succeeds when none of its queries fails.
C30_Migration ==
  /\ \A n \in Succeeded :
       LET run == mig.runs[n]
       IN /\ \A r1, r2 \in run.after : SameKey(r1, r2) => r1 = r2
          /\ run.after \subseteq run.before
          /\ \A r \in run.before : \E s \in run.after :
                /\ SameKey(s, r)
                /\ s.created >= r.created
                /\ s.created = r.created => s.id >= r.id
          /\ run.constraint
  /\ \A n \in Succeeded : \A k \in (n + 1)..Len(mig.runs) :
       /\ mig.runs[k].deleted = {}
       /\ mig.runs[k].failAt = "none" => mig.runs[k].success

\* The migration succeeded on a table with two rows of one key, kept the
\* later one, and was run a second time.
C30_Witness ==
  /\ Len(mig.runs) = 2
  /\ mig.runs[1].success
  /\ mig.runs[2].success
  /\ \E r \in mig.runs[1].deleted : \E s \in mig.runs[1].after :
        SameKey(s, r) /\ s.created > r.created

\* C31 as stated. The resolver is read-only and repeatable: getOrganizationId
\* never modifies the table organization, and two calls with the same name
\* against the unchanged table return the same id.
C31_ResolverRepeatable ==
  (/\ org.called
   /\ org.prev.called
   /\ org.prev.dept = org.dept
   /\ ~org.threw
   /\ ~org.prev.threw)
    => org.id = org.prev.id

\* C32 as stated. Connector termination: the paging loop of every connector
\* terminates even when every page fetch of the source fails, so that the
\* orchestrator always gets the connector's outcome and reaches the next
\* connector.
C32_ConnectorTerminates ==
  \A i \in 1..Len(etlJobs) :
     (etl.pc = "run" /\ etl.idx = i) ~> (etl.pc = "finish" /\ etl.idx = i)

\* C33 as stated. No source is left 'running': when runEtl has returned, the
\* most recent etl_status row of every registered source is 'success' or
\* 'failed', whatever mix of connectors returned and threw in the cycle.
C33_NoSourceLeftRunning ==
  etl.pc = "done"
    => \A i \in 1..Len(etlJobs) :
          /\ latest_etl_status(etlJobs[i]) # 0
          /\ etl_status[latest_etl_status(etlJobs[i])].status \in {"success", "failed"}

\* How often a source is named in a list of the summary.
Occurrences(list, name) == Cardinality({n \in 1..Len(list) : list[n] = name})

\* C34. The cycle summary partitions the sources: in the summary runEtl
\* returns every registered source is named exactly once, in 'successful' or
\* in 'failed', never in both and never in neither; a source is put into
\* 'successful' only when its connector returned without throwing (and into
\* 'failed' only when it threw); and totalErrors is the length of 'failed'.
C34_SummaryPartitionsSources ==
  /\ [](/\ etl.totalErrors = Len(etl.failed)
        /\ etl.pc = "done"
             => \A i \in 1..Len(etlJobs) :
                   Occurrences(etl.successful, etlJobs[i])
                     + Occurrences(etl.failed, etlJobs[i]) = 1)
  /\ [][/\ etl'.successful # etl.successful
             => /\ etl.pc = "finish" /\ ~conn.threw
                /\ etl'.successful = Append(etl.successful, Current)
                /\ etl'.failed = etl.failed
        /\ etl'.failed # etl.failed
             => /\ etl.pc = "finish" /\ conn.threw
                /\ etl'.failed = Append(etl.failed, Current)
                /\ etl'.successful = etl.successful]_vars

\* The cycle returned a summary that names sources in both lists.
C34_Witness ==
  /\ etl.pc = "done"
  /\ etl.successful # <<>>
  /\ etl.failed # <<>>
  /\ etl.totalErrors = 1

\* C35. Merge frame: a call to upsertJobVacancy changes at most the one row
\* that carries the candidate's natural key: the number of rows grows by
\* exactly 1 on 'inserted' and is unchanged on 'updated', the whole table is
\* unchanged when the call returns a failure, and no other row changes in any
\* field or in its id.
C35_MergeFrame ==
  [][CallStep
     => LET c == lastCall'.cand
            others == job_vacancies \ WithKeyOf(job_vacancies, c)
        IN /\ job_vacancies' \ WithKeyOf(job_vacancies', c) = others
           /\ lastCall'.res.action = "inserted"
                => Cardinality(job_vacancies') = Cardinality(job_vacancies) + 1
           /\ lastCall'.res.action = "updated"
                => /\ Cardinality(job_vacancies') = Cardinality(job_vacancies)
                   /\ {r.id : r \in job_vacancies'} = {r.id : r \in job_vacancies}
           /\ ~lastCall'.res.success => job_vacancies' = job_vacancies]_vars

\* A record was inserted beside a row of another key, which is still there.
C35_Witness ==
  /\ lastCall.res.action = "inserted"
  /\ lastCall.before = {}
  /\ \E r \in job_vacancies : ~SameKey(r, lastCall.cand) /\ r.created < now

\* C36 as stated. Per-attempt timeout in safeApiCall: every attempt is bounded
\* by a timeout of its own, so an attempt the timeout aborted does not keep a
\* later attempt from succeeding and a response that arrives within the
\* timeout of its attempt is not aborted: when the loop goes on to a further
\* attempt, that attempt starts with a running timer, not with one that has
\* fired or was cleared during an earlier attempt.
C36_PerAttemptTimeout ==
  [][(api.pc = "backoff" /\ api'.pc = "fetch") => api'.timer = "armed"]_vars

\* C37 as stated. The clean-up statistics are consistent: in a live run of
\* cleanupExpiredAndDuplicateJobs that completes, deletedExpiredJobs <=
\* totalExpiredJobs, deletedDuplicateJobs <= totalDuplicateJobs, and the number
\* of rows removed from job_vacancies is deletedExpiredJobs +
\* deletedDuplicateJobs.
C37_CleanupStatisticsConsistent ==
  cleanupRun.pc = "done"
    => /\ cleanupRun.stats.deletedExpiredJobs <= cleanupRun.stats.totalExpiredJobs
       /\ cleanupRun.stats.deletedDuplicateJobs <= cleanupRun.stats.totalDuplicateJobs
       /\ Cardinality(cleanupRun.before) - Cardinality(job_vacancies)
            = cleanupRun.stats.deletedExpiredJobs + cleanupRun.stats.deletedDuplicateJobs

\* The live clean-up run again, at the time of the latest run of the script
\* and on the table that run left, with no write in between.
SecondRun == cleanupExpiredAndDuplicateJobs(cli.result.rows, cli.t, FALSE, "none")

\* C38. Cleanup is idempotent: when a live clean-up has run to its end, a
\* second live run at the same time on the table the first left finds zero
\* expired and zero duplicate rows, deletes nothing and leaves the table
\* exactly as the first run left it.
C38_CleanupIdempotent ==
  (LiveRun /\ ~cli.result.threw) =>
     /\ SecondRun.stats.totalExpiredJobs = 0
     /\ SecondRun.stats.totalDuplicateJobs = 0
     /\ SecondRun.stats.deletedExpiredJobs = 0
     /\ SecondRun.stats.deletedDuplicateJobs = 0
     /\ ~SecondRun.threw /\ ~SecondRun.deleted
     /\ SecondRun.rows = cli.result.rows

\* A live run found a group of duplicates whose kept row had expired, and
\* deleted both the duplicate and the kept row.
C38_Witness ==
  /\ LiveRun /\ ~cli.result.threw
  /\ cli.result.removedDuplicates # {}
  /\ \E r \in cli.result.removedExpired :
        \E d \in cli.result.removedDuplicates : SameGroup(r, d)

\* The ETL function of the call ran and did not resolve with success.
EtlFunctionFailed == wrapper.error \in {"etl_failure", "etl_threw"}

\* C39. Transaction wrapper: executeETLWithTransaction never throws; its
\* transaction is committed only when the ETL function returned success; when
\* the ETL function throws or returns failure the call returns
\* {success: false, error} with the transaction rolled back; the client is
\* closed on every path; and a cache failure after the commit leaves the
\* ETL function's result as the value returned.
C39_TransactionWrapper ==
  /\ ~wrapper.threw
  /\ wrapper.txn = "committed" => wrapper.etlFunction.outcome = "success"
  /\ wrapper.pc = "returned" =>
       /\ wrapper.client = "ended"
       /\ wrapper.result \in {"success", "failure"}
       /\ wrapper.txn \notin {"open"}
       /\ wrapper.writes # "pending"
       /\ EtlFunctionFailed =>
            /\ wrapper.result = "failure"
            /\ wrapper.error # "none"
            /\ wrapper.txn \in {"rolled_back", "aborted"}
            /\ wrapper.txn = "aborted" <=> wrapper.rollbackFailed
            /\ wrapper.writes \in {"discarded", "autocommitted"}
       /\ wrapper.result = "success" <=> wrapper.txn = "committed"
       /\ wrapper.redisFailed => wrapper.result = "success" /\ wrapper.txn = "committed"

\* A call whose ETL function threw after writing through the client returned
\* its failure although the ROLLBACK failed as well.
C39_Witness ==
  /\ wrapper.pc = "returned"
  /\ wrapper.error = "etl_threw"
  /\ wrapper.etlFunction.usesClient
  /\ wrapper.rollbackFailed
  /\ wrapper.result = "failure"

\* The number of requests of ip the middleware passed to next() in the
\* window of length windowMs that ends at time t.
PassedInWindow(l, ip, t) ==
  Len(SelectSeq(l.passed[ip], LAMBDA time : time > t - l.windowMs /\ time <= t))

\* The times the Map holds for ip, none if it has no entry.
TimesHeld(l, ip) == IF ip \in DOMAIN l.requests THEN l.requests[ip] ELSE <<>>

\* C40. Rate limiter: for each client IP the middleware passes at most max
\* requests in any window of length windowMs and answers 429 to the rest,
\* which it does only when the window is full; a rejected request is not
\* recorded, and a request of one IP changes nothing of what is held or
\* counted for another.
C40_RateLimiter ==
  /\ [](\A ip \in IPs : \A t \in 0..now : PassedInWindow(limiter, ip, t) <= limiter.max)
  /\ [][(limiter # NoLimiter /\ limiter' # limiter) =>
          LET ip == limiter'.last.ip
          IN /\ limiter'.last.status \in {200, 429}
             /\ limiter'.last.status = 429 <=>
                  PassedInWindow(limiter, ip, now) >= limiter.max
             /\ limiter'.last.status = 429 =>
                  /\ TimesHeld(limiter', ip) = TimesHeld(limiter, ip)
                  /\ limiter'.passed = limiter.passed
             /\ limiter'.last.status = 200 =>
                  limiter'.passed[ip] = Append(limiter.passed[ip], now)
             /\ \A other \in IPs \ {ip} :
                  /\ TimesHeld(limiter', other) = TimesHeld(limiter, other)
                  /\ limiter'.passed[other] = limiter.passed[other]]_vars

\* One client was answered 429 at a time when its window was full, while the
\* other client, whose window was not, had been let through at the same time.
C40_Witness ==
  /\ limiter.last.status = 429
  /\ PassedInWindow(limiter, limiter.last.ip, now) = limiter.max
  /\ limiter.last.at = now
  /\ now > 0
  /\ \E other \in IPs \ {limiter.last.ip} :
       /\ PassedInWindow(limiter, other, now) > 0
       /\ PassedInWindow(limiter, other, now) < limiter.max

====
